---- MODULE Spec2Model ----
(***************************************************************************)
(* csi-node-cache: the cluster controller (node loop, claim loop, orphan   *)
(* sweep) and the per-node agent (publish path), as state machines.        *)
(*                                                                         *)
(* The orchestrator's objects are the shared state: nodes, claims, backing *)
(* volumes and the configuration object holding the volume-type map.  A    *)
(* reconcile is a sequence of orchestrator calls; each call is one atomic  *)
(* step, so that other writers interleave between the calls of a handler.  *)
(* resourceVersion is a per-object counter: an Update carrying another     *)
(* version than the stored one is a conflict.                              *)
(***************************************************************************)
EXTENDS Naturals, Integers, Sequences, FiniteSets, TLC

\* ------------------------------------------------------------ bounds
\* How often a node of one name may join the cluster (2: deletion and re-creation).
MaxIncarnations == 2
\* Backing volumes the provisioner may hand out.
MaxVolumes == 2
\* Publish calls one agent process may receive.
MaxPublishes == 2
\* How often the agent process is started anew.
MaxRestarts == 1
\* Lines of a map text handed to the parser, and key=value items of a line.
MaxLines == 2
MaxItems == 2
\* Init calls one array may receive, and lines of a status text.
MaxInits == 2
MaxStatLines == 2
\* Version of the stored configuration object up to which it may be edited
\* by hand.
MaxMapVersion == 3
\* Lines of a kernel mount table handed to NewFromDevice.
MaxMountLines == 2

\* --------------------------------------------------------- constants
Nodes == {"a", "b"}
finalizerLabel == "node-cache.gke.io/in-use"
pvcProtection == "kubernetes.io/pvc-protection"
pdVolumeType == "pd"
NoLabel == "<no label>"
\* The empty string of volumeTypeInfo.Disk and pvc.Spec.VolumeName.
NoDisk == <<>>
NoNode == "<none>"
\* The flag --pd-storage-class of a controller that supports PD caches.
StorageClassName == "a-storage-class"
PersistentVolumeBlock == "Block"
ReadWriteOnce == "ReadWriteOnce"

VARIABLES
    pdStorageClass, \* reconciler.pdStorageClass ("" when PD caches are off)
    labelsOf,       \* name -> the labels a node of that name carries
    nodes,          \* name -> the Node object
    budget,         \* name -> how many more nodes of that name may join
    mayTerminate,   \* whether nodes linger deletion-marked before they go
    pvcs,           \* name -> the PersistentVolumeClaim object
    pvcRV,          \* name -> resourceVersion of the claim of that name
    pvs,            \* volume name -> the PersistentVolume and its attachment
    nextVol,        \* volumes handed out so far
    cm,             \* the stored configuration object
    cmCache,        \* the informer cache's copy of it
    nodeQ,          \* work queue of the node controller
    claimQ,         \* work queue of the pvc controller
    nw,             \* the node controller's worker
    cw,             \* the pvc controller's worker
    attachReqs,     \* history: attachDisk calls issued, <<handle, node>>
    everBound,      \* history: <<volume, claim name>> bindings
    agent,          \* the agent process and its mounts
    codec,          \* a call of the map codec or of a volume constructor
    raid            \* the array manager: the array, the devices, its last call

vars == <<raid, codec, pdStorageClass, labelsOf, nodes, budget, mayTerminate, pvcs, pvcRV, pvs, nextVol, cm,
          cmCache, nodeQ, claimQ, nw, cw, attachReqs, everBound, agent>>

ctlVars == <<pdStorageClass, labelsOf, nodes, budget, mayTerminate, pvcs, pvcRV, pvs, nextVol, cm,
             cmCache, nodeQ, claimQ, nw, cw, attachReqs, everBound>>

\* ------------------------------------------------------------ helpers
Contains(s, x) == \E i \in 1..Len(s) : s[i] = x
\* A filter that keeps nothing.
Without_All(s, x) == <<>>

Without(s, x) == SelectSeq(s, LAMBDA f : f # x)

\* resource.Quantity: the number digits * 10^exp, below zero when neg, the
\* Format it is printed in, and s, the text String() is to return (empty
\* until there is one).  The number is held as value * 10^scale, an int64
\* and its scale or a decimal number of any length: the digits of the
\* value, and the scale.  Quantity{}:
Zero ==
    [neg |-> FALSE, digits |-> <<>>, exp |-> 0, Format |-> "", s |-> <<>>,
     value |-> <<>>, scale |-> 0]

\* Quantity.IsZero()
IsZero(q) == q.digits = <<>>

\* A node's size label: none, or the text it carries.
NoSizeLabel == [found |-> FALSE, text |-> <<>>]

SizeLabel(text) == [found |-> TRUE, text |-> text]

\* volumeTypeInfo
Info(t, sz, d) == [VolumeType |-> t, Size |-> sz, Disk |-> d]

\* The name the provisioner gives its i-th volume (never reused).
VolName(i) == <<"pv", i>>

Volumes == {VolName(i) : i \in 1..MaxVolumes}

\* pv.Spec.CSI.VolumeHandle: projects/<p>/zones/<z>/disks/<name>
VolumeHandle(v) == <<"projects", "p", "zones", "z", "disks", v>>

\* parseVolumeHandle(...).name
parseVolumeHandle(h) == IF Len(h) # 6 THEN "<bad handle>" ELSE h[6]

NoNodeObj == [exists |-> FALSE, deleting |-> FALSE, kind |-> NoLabel, size |-> NoSizeLabel]

NoPvc == [exists |-> FALSE, deleting |-> FALSE, finalizers |-> <<>>,
          bound |-> FALSE, volumeName |-> NoDisk, storageClass |-> "",
          volumeMode |-> "", accessModes |-> <<>>, request |-> Zero,
          cached |-> FALSE]

\* A volume: whether it is there, the node it is attached to, and the
\* provider's attach operation on it that a reconcile waits for or that has
\* yet to complete (op: none, running, done, failed; opNode its node).
NoPv == [exists |-> FALSE, attachedTo |-> NoNode, op |-> "none", opNode |-> NoNode]

EmptyMapping == [n \in {} |-> Info("", Zero, NoDisk)]

\* A put that starts from the empty map.
MapPut_Alone(m, n, info) == [x \in {n} |-> info]

\* mapping[node] = info
MapPut(m, n, info) == [x \in (DOMAIN m) \cup {n} |-> IF x = n THEN info ELSE m[x]]

\* bad: the stored text is malformed: getVolumeTypeMapping returns an error
\* for it, or, when it panics, does not return (a text with an item type,
\* size or disk that has no "=").
NoCm == [exists |-> FALSE, rv |-> 0, data |-> EmptyMapping, bad |-> FALSE,
         panics |-> FALSE]

\* ------------------------------------------- the volume-type map codec
\* Text is a sequence of characters.  The characters met, in the order of
\* their bytes: the white space of ASCII, its printable characters, and
\* the white space beyond ASCII.  A character that a string of TLA+ cannot
\* hold is written by its code point ("U+000B" is the vertical tab); the
\* grave accent, which none of the texts holds, is left out.
Chars ==
    <<"\t", "\n", "U+000B", "\f", "\r", " ", "!", "\"", "#", "$", "%", "&",
      "'", "(", ")", "*", "+", ",", "-", ".", "/", "0", "1", "2", "3", "4",
      "5", "6", "7", "8", "9", ":", ";", "<", "=", ">", "?", "@", "A", "B",
      "C", "D", "E", "F", "G", "H", "I", "J", "K", "L", "M", "N", "O", "P",
      "Q", "R", "S", "T", "U", "V", "W", "X", "Y", "Z", "[", "\\", "]", "^",
      "_", "a", "b", "c", "d", "e", "f", "g", "h", "i", "j", "k", "l",
      "m", "n", "o", "p", "q", "r", "s", "t", "u", "v", "w", "x", "y", "z",
      "{", "|", "}", "~", "U+0085", "U+00A0", "U+1680", "U+2000", "U+2001",
      "U+2002", "U+2003", "U+2004", "U+2005", "U+2006", "U+2007", "U+2008",
      "U+2009", "U+200A", "U+2028", "U+2029", "U+202F", "U+205F", "U+3000">>

Rank(c) == CHOOSE i \in 1..Len(Chars) : Chars[i] = c

\* unicode.IsSpace: tab, newline, vertical tab, form feed, carriage return,
\* space, U+0085, U+00A0, U+1680, U+2000 to U+200A, U+2028, U+2029, U+202F,
\* U+205F, U+3000.
WhiteSpace ==
    {"\t", "\n", "U+000B", "\f", "\r", " ", "U+0085", "U+00A0", "U+1680",
     "U+2000", "U+2001", "U+2002", "U+2003", "U+2004", "U+2005", "U+2006",
     "U+2007", "U+2008", "U+2009", "U+200A", "U+2028", "U+2029", "U+202F",
     "U+205F", "U+3000"}

\* The key of the configuration object's data that holds the map.
volumeTypeInfoKey == "volume-types"

KeyType == <<"t", "y", "p", "e">>

KeySize == <<"s", "i", "z", "e">>

KeyDisk == <<"d", "i", "s", "k">>

\* The first place of character c in s, 0 when there is none.
Index(s, c) ==
    IF \E i \in 1..Len(s) : s[i] = c
    THEN CHOOSE i \in 1..Len(s) : s[i] = c /\ \A j \in 1..(i - 1) : s[j] # c
    ELSE 0

\* strings.Split(s, sep)
RECURSIVE Split(_, _)
Split(s, sep) ==
    IF Index(s, sep) = 0 THEN <<s>>
    ELSE <<SubSeq(s, 1, Index(s, sep) - 1)>> \o
         Split(SubSeq(s, Index(s, sep) + 1, Len(s)), sep)

\* strings.SplitN(s, sep, 2)
SplitN(s, sep) ==
    IF Index(s, sep) = 0 THEN <<s>>
    ELSE <<SubSeq(s, 1, Index(s, sep) - 1), SubSeq(s, Index(s, sep) + 1, Len(s))>>

\* a trim that removes nothing: the text as it was given
TrimSpace_None(s) == s

\* strings.TrimSpace
RECURSIVE TrimSpace(_)
TrimSpace(s) ==
    IF s = <<>> THEN s
    ELSE IF Head(s) \in WhiteSpace THEN TrimSpace(Tail(s))
    ELSE IF s[Len(s)] \in WhiteSpace THEN TrimSpace(SubSeq(s, 1, Len(s) - 1))
    ELSE s

\* strings.Join(lines, sep)
RECURSIVE Join(_, _)
Join(lines, sep) ==
    IF lines = <<>> THEN <<>>
    ELSE IF Len(lines) = 1 THEN lines[1]
    ELSE lines[1] \o <<sep>> \o Join(Tail(lines), sep)

\* a < b for strings (byte-wise)
RECURSIVE Less(_, _)
Less(a, b) ==
    IF b = <<>> THEN FALSE
    ELSE IF a = <<>> THEN TRUE
    ELSE IF Head(a) # Head(b) THEN Rank(Head(a)) < Rank(Head(b))
    ELSE Less(Tail(a), Tail(b))

\* the lines in the order of the range over the map, unsorted
Sort_None(lines) == lines

\* slices.Sort(lines)
RECURSIVE Sort(_)
Sort(lines) ==
    IF Len(lines) <= 1 THEN lines
    ELSE LET rest == Sort(Tail(lines))
             less == SelectSeq(rest, LAMBDA l : Less(l, Head(lines)))
             more == SelectSeq(rest, LAMBDA l : ~Less(l, Head(lines)))
         IN less \o <<Head(lines)>> \o more

\* ------------------------------------------------------ whole numbers
\* A whole number of any size is written by its decimal digits, the
\* highest first; no digits at all write zero.
Digits == <<"0", "1", "2", "3", "4", "5", "6", "7", "8", "9">>

DigitSet == {Digits[i] : i \in 1..Len(Digits)}

\* The number a digit writes.
DigitOf(c) == (CHOOSE i \in 1..Len(Digits) : Digits[i] = c) - 1

\* The digits that write a number that fits a machine word.
RECURSIVE NumberText(_)
NumberText(n) ==
    IF n < 10 THEN <<Digits[n + 1]>>
    ELSE NumberText(n \div 10) \o <<Digits[(n % 10) + 1]>>

\* strconv.FormatInt(n, 10)
FormatInt(n) == IF n < 0 THEN <<"-">> \o NumberText(0 - n) ELSE NumberText(n)

\* n zeros
Zeros(n) == [i \in 1..n |-> "0"]

\* How many characters at the head of s are of the set.
RECURSIVE Span(_, _)
Span(s, set) == IF s = <<>> \/ Head(s) \notin set THEN 0 ELSE 1 + Span(Tail(s), set)

\* s without its first k characters
From(s, k) == SubSeq(s, k + 1, Len(s))

\* The digits without the zeros at their head.
TrimZeros(d) == From(d, Span(d, {"0"}))

\* How many zeros the digits end in.
RECURSIVE TrailingZeros(_)
TrailingZeros(d) ==
    IF d = <<>> \/ d[Len(d)] # "0" THEN 0
    ELSE 1 + TrailingZeros(SubSeq(d, 1, Len(d) - 1))

\* d * k + carry, for a small k, worked by halves: as many digits as d
\* has, and the carry out of them.
RECURSIVE MulAddParts(_, _, _)
MulAddParts(d, k, carry) ==
    IF carry = 0 /\ d = <<>> THEN [digits |-> <<>>, carry |-> 0]
    ELSE IF d = <<>> THEN [digits |-> <<>>, carry |-> carry]
    ELSE IF Len(d) = 1
    THEN [digits |-> <<Digits[((DigitOf(d[1]) * k + carry) % 10) + 1]>>,
          carry |-> (DigitOf(d[1]) * k + carry) \div 10]
    ELSE LET half == Len(d) \div 2
             right == MulAddParts(SubSeq(d, half + 1, Len(d)), k, carry)
             left == MulAddParts(SubSeq(d, 1, half), k, right.carry)
         IN [digits |-> left.digits \o right.digits, carry |-> left.carry]

\* d * k + carry, for a small k
MulAdd(d, k, carry) ==
    (IF MulAddParts(d, k, carry).carry = 0 THEN <<>>
     ELSE NumberText(MulAddParts(d, k, carry).carry))
    \o MulAddParts(d, k, carry).digits

\* d * k^times
RECURSIVE MulPow(_, _, _)
MulPow(d, k, times) ==
    IF times = 0 \/ d = <<>> THEN d ELSE MulPow(MulAdd(d, k, 0), k, times - 1)

\* The long division of rem * 10^Len(d) + d by a small k, worked by
\* halves.
RECURSIVE DivMod(_, _, _)
DivMod(d, k, rem) ==
    IF rem = 0 /\ d = <<>> THEN [quo |-> <<>>, rem |-> 0]
    ELSE IF d = <<>> THEN [quo |-> <<>>, rem |-> rem]
    ELSE IF Len(d) = 1
    THEN [quo |-> <<Digits[((rem * 10 + DigitOf(d[1])) \div k) + 1]>>,
          rem |-> (rem * 10 + DigitOf(d[1])) % k]
    ELSE LET half == Len(d) \div 2
             left == DivMod(SubSeq(d, 1, half), k, rem)
             right == DivMod(SubSeq(d, half + 1, Len(d)), k, left.rem)
         IN [quo |-> left.quo \o right.quo, rem |-> right.rem]

\* a < b for whole numbers
NatLess(a, b) ==
    LET x == TrimZeros(a)
        y == TrimZeros(b)
    IN Len(x) < Len(y) \/ (Len(x) = Len(y) /\ Less(x, y))

\* d without the factors k it has, and how many it had.
RECURSIVE RemoveFactors(_, _, _)
RemoveFactors(d, k, times) ==
    IF ~NatLess(d, NumberText(k)) /\ DivMod(d, k, 0).rem = 0
    THEN RemoveFactors(TrimZeros(DivMod(d, k, 0).quo), k, times + 1)
    ELSE [number |-> d, times |-> times]

\* math.MaxInt64
MaxInt64 ==
    <<"9", "2", "2", "3", "3", "7", "2", "0", "3", "6", "8", "5", "4", "7", "7",
      "5", "8", "0", "7">>

\* int32 of a number of 64 bits: its low 32 bits, the highest the sign.
Int32(neg, d) ==
    LET low == DivMod(d, 65536, 0)
        lo == low.rem
        hi == DivMod(low.quo, 65536, 0).rem
        plain == hi < 32768 \/ (neg /\ hi = 32768 /\ lo = 0)
    IN IF neg
       THEN IF plain THEN (0 - hi) * 65536 - lo ELSE (65536 - hi) * 65536 - lo
       ELSE IF plain THEN hi * 65536 + lo ELSE (hi - 65536) * 65536 + lo

\* strconv.ParseInt(s, 10, 64): a sign or none, then digits, one at least;
\* a number that does not fit 64 bits is an error.
ParseInt(s) ==
    LET signed == s # <<>> /\ s[1] \in {"+", "-"}
        neg == s # <<>> /\ s[1] = "-"
        body == IF signed THEN Tail(s) ELSE s
        most == IF neg THEN MulAdd(MaxInt64, 1, 1) ELSE MaxInt64
    IN IF body = <<>> \/ Span(body, DigitSet) # Len(body) THEN [err |-> TRUE, value |-> <<>>, neg |-> FALSE]
       ELSE IF NatLess(most, body) THEN [err |-> TRUE, value |-> <<>>, neg |-> FALSE]
       ELSE [err |-> FALSE, value |-> TrimZeros(body), neg |-> neg]

\* ------------------------------------------------- resource.Quantity
\* A quantity is held with digits that neither begin nor end in a zero;
\* zero has no digits.  The formats:
DecimalSI == "DecimalSI"

BinarySI == "BinarySI"

DecimalExponent == "DecimalExponent"

\* Quantity.Cmp(other) == 0
Equal(q, other) == q.neg = other.neg /\ q.digits = other.digits /\ q.exp = other.exp

\* The quantity of a sign, digits, a power of ten and a format.
Amount(neg, d, exp, format) ==
    LET m == TrimZeros(d)
        z == TrailingZeros(m)
    IN IF m = <<>> THEN [Zero EXCEPT !.Format = format, !.scale = exp]
       ELSE [neg |-> neg, digits |-> SubSeq(m, 1, Len(m) - z), exp |-> exp + z,
             Format |-> format, s |-> <<>>, value |-> m, scale |-> exp]

\* The suffixes of the decimal SI units, 10^-9 to 10^18 by thousands, and of
\* the binary ones, 2^10 to 2^60.
DecimalSuffixes ==
    <<<<"n">>, <<"u">>, <<"m">>, <<>>, <<"k">>, <<"M">>, <<"G">>, <<"T">>, <<"P">>,
      <<"E">>>>

BinarySuffixes ==
    <<<<"K", "i">>, <<"M", "i">>, <<"G", "i">>, <<"T", "i">>, <<"P", "i">>,
      <<"E", "i">>>>

\* The place of suffix u in the row of suffixes it belongs to.
UnitIndex(units, u) == CHOOSE i \in 1..Len(units) : units[i] = u

\* The characters a suffix begins with.
SuffixChars == {"e", "E", "i", "n", "u", "m", "k", "K", "M", "G", "T", "P"}

\* parseQuantityString: a sign or none, zeros, the whole part, a point and
\* the fraction, and the suffix: letters, then a sign or none and digits to
\* the end.  Anything left after that is an error.  digit: a digit stands
\* before the suffix (without one the text before the suffix is no number).
\* The last step, with the suffix and what follows its letters.
parseQuantityString_Suffix(str, digit, num, denom, suffix, exponent) ==
    [positive |-> ~(str # <<>> /\ str[1] = "-"),
     num |-> IF num = <<>> THEN <<"0">> ELSE num,
     denom |-> denom,
     suffix |-> suffix,
     digit |-> digit \/ num # <<>> \/ denom # <<>>,
     err |-> LET number == IF exponent # <<>> /\ exponent[1] \in {"-", "+"}
                          THEN Tail(exponent) ELSE exponent
             IN From(number, Span(number, DigitSet)) # <<>>]

\* The fraction's digits, of a text that goes on after the point.
parseQuantityString_Denom(str, digit, num, fraction, denom) ==
    parseQuantityString_Suffix(str, digit, num, denom, From(fraction, Len(denom)),
                               From(From(fraction, Len(denom)),
                                    Span(From(fraction, Len(denom)), SuffixChars)))

\* The whole part's digits, and the text that goes on after them.
parseQuantityString_Num(str, digit, num, point) ==
    IF point # <<>> /\ point[1] = "."
    THEN parseQuantityString_Denom(str, digit, num, Tail(point),
                                   SubSeq(Tail(point), 1, Span(Tail(point), DigitSet)))
    ELSE parseQuantityString_Denom(str, digit, num, point, <<>>)

\* The text after the zeros it begins with.
parseQuantityString_Zeroes(str, digit, whole) ==
    parseQuantityString_Num(str, digit, SubSeq(whole, 1, Span(whole, DigitSet)),
                            From(whole, Span(whole, DigitSet)))

\* The text after its sign: a text of zeros only, or of nothing, is 0.
parseQuantityString_Sign(str, body) ==
    parseQuantityString_Zeroes(str, body = <<>> \/ Span(body, {"0"}) > 0,
                               From(body, Span(body, {"0"})))

parseQuantityString(str) ==
    parseQuantityString_Sign(str, From(str, IF str # <<>> /\ str[1] \in {"-", "+"}
                                            THEN 1 ELSE 0))

\* quantitySuffixer.interpret(suffix): the base and the exponent a suffix
\* stands for: a decimal SI unit, a binary one, or e or E and a number.
interpret(suffix) ==
    IF Contains(DecimalSuffixes, suffix)
    THEN [ok |-> TRUE, exponent |-> 3 * UnitIndex(DecimalSuffixes, suffix) - 12,
          format |-> DecimalSI]
    ELSE IF Contains(BinarySuffixes, suffix)
    THEN [ok |-> TRUE, exponent |-> 10 * UnitIndex(BinarySuffixes, suffix),
          format |-> BinarySI]
    ELSE IF Len(suffix) > 1 /\ suffix[1] \in {"e", "E"} /\ ~ParseInt(Tail(suffix)).err
    THEN [ok |-> TRUE,
          exponent |-> Int32(ParseInt(Tail(suffix)).neg, ParseInt(Tail(suffix)).value),
          format |-> DecimalExponent]
    ELSE [ok |-> FALSE, exponent |-> 0, format |-> DecimalExponent]

\* A quantity finer than 10^-9 is rounded up to the next 10^-9.
RoundUpNano(q) ==
    IF IsZero(q) \/ q.exp >= 0 - 9 THEN q
    ELSE IF 0 - 9 - q.exp >= Len(q.digits)
    THEN Amount(q.neg, <<"1">>, 0 - 9, q.Format)
    ELSE Amount(q.neg,
                MulAdd(SubSeq(q.digits, 1, Len(q.digits) - (0 - 9 - q.exp)), 1, 1),
                0 - 9, q.Format)

\* The digits of the whole part of the quantity's size.
Whole(q) ==
    IF q.exp >= 0 THEN q.digits \o Zeros(q.exp)
    ELSE SubSeq(q.digits, 1, Len(q.digits) + q.exp)

\* A quantity of a binary unit is at most math.MaxInt64, and one below 1 is
\* taken as a decimal one.
Capped(q) ==
    IF q.Format # BinarySI \/ IsZero(q) THEN q
    ELSE IF NatLess(MaxInt64, Whole(q)) \/ (Whole(q) = MaxInt64 /\ q.exp < 0)
    THEN Amount(q.neg, MaxInt64, 0, BinarySI)
    ELSE IF Whole(q) = <<>> THEN [q EXCEPT !.Format = DecimalSI]
    ELSE q

\* ParseQuantity keeps a short number as a machine word: at most 18 digits
\* of a decimal unit no finer than 10^-9, or a whole number of Ki, Mi, Gi or
\* Ti with digits to spare.  Only a longer one is read as a decimal number,
\* which needs a digit.
Short(parsed, unit) ==
    IF unit.format = BinarySI
    THEN parsed.denom = <<>> /\ Len(parsed.num) + (3 * unit.exponent) \div 10 <= 14
    ELSE /\ Len(parsed.num) + Len(parsed.denom) <= 18
         /\ unit.exponent - Len(parsed.denom) >= 0 - 9

\* ParseQuantity keeps the text it was given for String() to return when
\* the number is a short one and looks canonical: of a binary unit, a
\* number that is no multiple of 8; of the others, a power of ten that is
\* a multiple of 3 and digits that neither begin with a zero nor end in
\* three.
Reused(parsed, unit) ==
    LET shifted == parsed.num \o parsed.denom
        scale == unit.exponent - Len(parsed.denom)
    IN /\ Short(parsed, unit)
       /\ IF unit.format = BinarySI THEN DivMod(shifted, 8, 0).rem # 0
          ELSE /\ scale % 3 = 0
               /\ shifted[1] # "0"
               /\ ~(Len(shifted) >= 3 /\ TrailingZeros(shifted) >= 3)

\* The size in units of 10^-9, the finest ParseQuantity keeps.
Nanos(q) ==
    IF q.exp >= 0 - 9 THEN q.digits \o Zeros(q.exp + 9)
    ELSE SubSeq(q.digits, 1, Len(q.digits) + q.exp + 9)

\* The number of a text times its unit, as written.
Written(parsed, unit) ==
    IF unit.format = BinarySI
    THEN Amount(~parsed.positive,
                MulPow(parsed.num \o parsed.denom, 1024, unit.exponent \div 10),
                0 - Len(parsed.denom), BinarySI)
    ELSE Amount(~parsed.positive, parsed.num \o parsed.denom,
                unit.exponent - Len(parsed.denom), unit.format)

\* How ParseQuantity holds the number.  A short one is an int64Amount: the
\* digits written (times the binary unit) and the scale they were written
\* to.  Another is a decimal number: rounded, it is held to 10^-9 whatever
\* its size; capped, it is math.MaxInt64 to scale 0; zero is not rounded
\* and keeps the scale it was written to.
Held(parsed, unit) ==
    LET written == Written(parsed, unit)
        rounded == RoundUpNano(written)
    IN IF Short(parsed, unit) \/ IsZero(written)
       THEN [value |-> written.value, scale |-> written.scale]
       ELSE IF ~Equal(Capped(rounded), rounded)
       THEN [value |-> MaxInt64, scale |-> 0]
       ELSE [value |-> Nanos(rounded), scale |-> 0 - 9]

\* ParseQuantity, once the text is taken apart and its suffix known: the
\* number times its unit, rounded and capped.
ParseQuantity_Amount(str, parsed, unit) ==
    IF ~Short(parsed, unit) /\ ~parsed.digit THEN [err |-> TRUE, value |-> Zero]
    ELSE [err |-> FALSE,
          value |-> [Capped(RoundUpNano(Written(parsed, unit)))
                     EXCEPT !.s = IF Reused(parsed, unit) THEN str ELSE <<>>,
                            !.value = Held(parsed, unit).value,
                            !.scale = Held(parsed, unit).scale]]

\* ParseQuantity, once the text is taken apart.
ParseQuantity_Suffix(str, parsed, unit) ==
    IF parsed.err \/ ~unit.ok THEN [err |-> TRUE, value |-> Zero]
    ELSE ParseQuantity_Amount(str, parsed, unit)

ParseQuantity_Parsed(str, parsed) ==
    ParseQuantity_Suffix(str, parsed, interpret(parsed.suffix))

\* resource.ParseQuantity(str)
ParseQuantity(str) ==
    IF str = <<>> THEN [err |-> TRUE, value |-> Zero]
    ELSE IF str = <<"0">>
    THEN [err |-> FALSE, value |-> [Zero EXCEPT !.Format = DecimalSI, !.s = str]]
    ELSE ParseQuantity_Parsed(str, parseQuantityString(str))

\* The format a quantity is printed in: a binary one below 1024 or with a
\* fraction, and one of no format, are printed as decimal ones.
PrintFormat(q) ==
    IF q.Format = BinarySI
    THEN IF NatLess(Whole(q), <<"1", "0", "2", "4">>) \/ q.exp < 0 THEN DecimalSI
         ELSE BinarySI
    ELSE IF q.Format = DecimalSI THEN DecimalSI
    ELSE DecimalExponent

\* suffixHandler.construct: the suffix of 10^exponent or 2^(10 * exponent)
\* in a format; a decimal SI unit there is none for has no suffix.
Suffix(exponent, format) ==
    IF format = BinarySI
    THEN IF exponent \in 1..Len(BinarySuffixes) THEN BinarySuffixes[exponent] ELSE <<>>
    ELSE IF format = DecimalSI
    THEN IF exponent \in {3 * i - 12 : i \in 1..Len(DecimalSuffixes)}
         THEN DecimalSuffixes[(exponent + 12) \div 3] ELSE <<>>
    ELSE IF exponent = 0 THEN <<>> ELSE <<"e">> \o FormatInt(exponent)

\* A String() that leaves the suffix out.
QuantityString_Raw(q) == (IF q.neg THEN <<"-">> ELSE <<>>) \o q.digits

\* Quantity.CanonicalizeBytes: the number and the suffix of the canonical
\* form: a binary quantity as a multiple of the highest power of 1024 that
\* leaves a whole number, a decimal one with an exponent that is a multiple
\* of 3.
CanonicalizeBytes(q) ==
    LET binary == RemoveFactors(Whole(q), 1024, 0)
        pad == q.exp % 3
    IN IF IsZero(q) THEN <<"0">>
       ELSE (IF q.neg THEN <<"-">> ELSE <<>>) \o
            (IF PrintFormat(q) = BinarySI
             THEN binary.number \o Suffix(binary.times, BinarySI)
             ELSE q.digits \o Zeros(pad) \o Suffix(q.exp - pad, PrintFormat(q)))

\* Quantity.String(): the text ParseQuantity kept, or else the canonical
\* form.
QuantityString(q) == IF q.s # <<>> THEN q.s ELSE CanonicalizeBytes(q)

\* resource.MustParse(str): it panics on a text that is no quantity, so it
\* has a value for the others only.
MustParse(str) == CHOOSE q \in {ParseQuantity(str).value} : ~ParseQuantity(str).err

\* What a failed parse returns: an error and a nil map.
ParseError(err) == [err |-> err, nil |-> TRUE, map |-> EmptyMapping]

\* getVolumeTypeMapping, lines 259-279: the key=value items of one line.
\* A key without "=" is met with parts[1] of a one-element slice: a panic.
RECURSIVE ParseItems(_, _)
ParseItems(items, info) ==
    IF items = <<>> THEN [err |-> "", info |-> info]
    ELSE LET parts == SplitN(Head(items), "=")
             trimmed == TrimSpace(parts[1])
         IN IF trimmed \notin {KeyType, KeySize, KeyDisk} THEN [err |-> "bad key", info |-> info]
            ELSE IF Len(parts) < 2 THEN [err |-> "panic", info |-> info]
            ELSE IF trimmed = KeyType
            THEN ParseItems(Tail(items), [info EXCEPT !.VolumeType = TrimSpace(parts[2])])
            ELSE IF trimmed = KeyDisk
            THEN ParseItems(Tail(items), [info EXCEPT !.Disk = TrimSpace(parts[2])])
            ELSE IF ParseQuantity(TrimSpace(parts[2])).err
            THEN [err |-> "bad size", info |-> info]
            ELSE ParseItems(Tail(items),
                            [info EXCEPT !.Size = ParseQuantity(TrimSpace(parts[2])).value])

\* getVolumeTypeMapping, lines 250-283: the loop over the lines.
RECURSIVE ParseLines(_, _)
ParseLines(lines, typeMap) ==
    IF lines = <<>> THEN [err |-> "", nil |-> FALSE, map |-> typeMap]
    ELSE LET line == TrimSpace(Head(lines))
             items == Split(line, ",")
             node == TrimSpace(items[1])
             got == ParseItems(Tail(items), Info(<<>>, Zero, <<>>))
         IN IF line = <<>> THEN ParseLines(Tail(lines), typeMap)
            ELSE IF Len(items) < 2 THEN ParseError("bad line")
            ELSE IF node \in DOMAIN typeMap THEN ParseError("duplicated")
            ELSE IF got.err # "" THEN ParseError(got.err)
            ELSE ParseLines(Tail(lines), MapPut(typeMap, node, got.info))

\* getVolumeTypeMapping(configMapData)
getVolumeTypeMapping(configMapData) ==
    IF volumeTypeInfoKey \notin DOMAIN configMapData THEN ParseError("not found")
    ELSE ParseLines(Split(configMapData[volumeTypeInfoKey], "\n"), EmptyMapping)

\* writeVolumeTypeMapping, lines 291-298: the line of one node.
FormatLine(node, info) ==
    node \o <<",">> \o KeyType \o <<"=">> \o info.VolumeType
    \o (IF ~IsZero(info.Size) THEN <<",">> \o KeySize \o <<"=">> \o QuantityString(info.Size)
        ELSE <<>>)
    \o (IF info.Disk # <<>> THEN <<",">> \o KeyDisk \o <<"=">> \o info.Disk ELSE <<>>)

\* writeVolumeTypeMapping(configMapData, typeMap); order is the order in
\* which the range over typeMap meets its keys.  The data it leaves.
writeVolumeTypeMapping(configMapData, typeMap, order) ==
    LET lines == [i \in 1..Len(order) |-> FormatLine(order[i], typeMap[order[i]])]
    IN [k \in (DOMAIN configMapData) \cup {volumeTypeInfoKey} |->
          IF k = volumeTypeInfoKey THEN Join(Sort(lines), "\n") ELSE configMapData[k]]

\* One call of the codec.  op: parse (getVolumeTypeMapping of data), write
\* (writeVolumeTypeMapping of typeMap into data, the range meeting the keys
\* in order, then getVolumeTypeMapping of what was written), node
\* (getVolumeTypeFromNode of labels).  stage: in, written, done.
\* A call of a local-volume constructor is held the same way.  op: device
\* (NewFromDevice of a device that resolves to actualDevice, for mountPath,
\* with mounts the text of /proc/mounts), tmpfs (NewTmpfsVolume of size);
\* dirOk: os.MkdirAll of the path succeeds; toolOk: the mount tool
\* succeeds.  Its results: vol what it returned, mkdir whether it called
\* os.MkdirAll, ran whether it called the mount tool, opts the mount
\* options it passed, after the mount table it left.
NoCodec ==
    [op |-> "none", stage |-> "in", data |-> <<>>, typeMap |-> EmptyMapping,
     order |-> <<>>, labels |-> [kind |-> NoLabel, size |-> NoSizeLabel],
     written |-> <<>>, out |-> ParseError(""),
     vti |-> [err |-> "", info |-> Info("", Zero, NoDisk)],
     mounts |-> <<>>, actualDevice |-> <<>>, mountPath |-> <<>>, size |-> Zero,
     dirOk |-> FALSE, toolOk |-> FALSE,
     vol |-> [path |-> "nil", kind |-> "", cause |-> ""],
     mkdir |-> FALSE, ran |-> FALSE, opts |-> <<>>, after |-> <<>>]

\* ------------------------------------------------------ the RAID manager
\* Device paths are texts.  /dev/
DevDir == <<"/", "d", "e", "v", "/">>

\* [a-zA-Z0-9]
AlphaNum ==
    {"0", "1", "2", "3", "4", "5", "6", "7", "8", "9",
     "a", "b", "c", "d", "e", "f", "g", "h", "i", "j", "k", "l", "m",
     "n", "o", "p", "q", "r", "s", "t", "u", "v", "w", "x", "y", "z",
     "A", "B", "C", "D", "E", "F", "G", "H", "I", "J", "K", "L", "M",
     "N", "O", "P", "Q", "R", "S", "T", "U", "V", "W", "X", "Y", "Z"}

\* The pattern with 'active' in place of 'inactive'.
InactiveLiteral_Active == <<" ", ":", " ", "a", "c", "t", "i", "v", "e", " ">>

\* ' : inactive ' of the pattern mdstatInactive.
InactiveLiteral == <<" ", ":", " ", "i", "n", "a", "c", "t", "i", "v", "e", " ">>

\* mdstatInactive.FindStringSubmatch(line): no match gives the empty slice,
\* a match the matched text and the two groups.  [^ ]+ ends at the first
\* space, the literal follows, then the longest run of [a-zA-Z0-9].
FindStringSubmatch(line) ==
    LET k == Index(line, " ")
        from == k + Len(InactiveLiteral)
        run == {n \in 0..(Len(line) - from + 1) :
                    \A j \in from..(from + n - 1) : line[j] \in AlphaNum}
        n == CHOOSE m \in run : \A o \in run : o <= m
    IN IF k <= 1 THEN <<>>
       ELSE IF Len(line) < from - 1 THEN <<>>
       ELSE IF SubSeq(line, k, from - 1) # InactiveLiteral THEN <<>>
       ELSE IF n = 0 THEN <<>>
       ELSE <<SubSeq(line, 1, from + n - 1), SubSeq(line, 1, k - 1),
              SubSeq(line, from, from + n - 1)>>

\* getInactiveDevices(mdstats)
getInactiveDevices(mdstats) ==
    LET stats == Split(mdstats, "\n")
        hits == SelectSeq(stats, LAMBDA line : Len(FindStringSubmatch(line)) = 3)
    IN [i \in 1..Len(hits) |-> DevDir \o FindStringSubmatch(hits[i])[2]]

\* What the kernel and the administration tool hold of one array: whether
\* the target is a running array, the devices that carry array metadata,
\* the devices that exist, the status text of /proc/mdstat.
World(live, meta, present, mdstat) ==
    [live |-> live, meta |-> meta, present |-> present, mdstat |-> mdstat]

\* The array the agent pools the local SSDs into, and two members.
RaidTarget == DevDir \o <<"m", "d", "/", "l", "s", "s", "d">>

RaidMembers == <<DevDir \o <<"s", "d", "a">>, DevDir \o <<"s", "d", "b">>>>

\* The members of the array.
Members == {RaidMembers[k] : k \in 1..Len(RaidMembers)}

\* One call of the array manager: op its name, pc the place it is at (idle:
\* it has returned), before the world it met and after the world it left,
\* log the commands it issued, err the error of its last command and, once
\* it has returned, of the call; next the device validated or probed next,
\* todo the devices still to stop or to wipe, existing the device found to
\* carry metadata; alone: no other call was under way while it ran.
NoCall ==
    [op |-> "none", pc |-> "idle", before |-> World(FALSE, {}, {}, <<>>),
     after |-> World(FALSE, {}, {}, <<>>), log |-> <<>>, err |-> FALSE, next |-> 1,
     todo |-> <<>>, existing |-> <<>>, alone |-> TRUE]

\* The Init calls of a run.
Calls == 1..MaxInits

\* The array manager: the array's kind (striped or mirror), the world the
\* calls work on, the Init calls (inits counts them), the Stop made since
\* the last Init, if any, and its error.
\* parsed: the last call of getInactiveDevices, its text and its result.
NoRaid ==
    [mode |-> "striped", w |-> World(FALSE, {}, {}, <<>>), inits |-> 0,
     calls |-> [i \in Calls |-> NoCall],
     stop |-> [called |-> FALSE, err |-> FALSE],
     parsed |-> [called |-> FALSE, text |-> <<>>, devices |-> <<>>]]

\* The commands that change an array.
ChangeOps == {"--stop", "--zero-superblock", "--assemble", "--add", "--create"}

\* runMdadm(args...) fails: --detail and --examine answer from the world
\* (a device that is not there has nothing to examine, and nothing to
\* wipe), the other commands succeed or fail as the tool decides (ok).
MdadmFails(w, args, ok) ==
    CASE args[1] = "--detail" -> ~w.live
      [] args[1] = "--examine" -> args[2] \notin w.meta \cap w.present
      [] args[1] = "--zero-superblock" -> ~ok \/ args[2] \notin w.present
      [] OTHER -> ~ok

\* What a command that succeeded leaves: a stopped array no longer runs, a
\* wiped device carries no metadata, an assembled or created array runs,
\* added and created members carry metadata.
MdadmEffect(w, args) ==
    CASE args[1] = "--stop" -> [w EXCEPT !.live = @ /\ args[2] # RaidTarget]
      [] args[1] = "--zero-superblock" -> [w EXCEPT !.meta = @ \ {args[2]}]
      [] args[1] = "--assemble" -> [w EXCEPT !.live = TRUE]
      [] args[1] = "--add" ->
            [w EXCEPT !.meta = @ \cup {args[i] : i \in 3..Len(args)}]
      [] args[1] = "--create" ->
            [w EXCEPT !.live = TRUE, !.meta = @ \cup {args[i] : i \in 8..Len(args)}]
      [] OTHER -> w

\* A call and the world it works on.
CallFields == DOMAIN NoCall

Frame(rd, i) ==
    [f \in CallFields \cup {"w"} |-> IF f = "w" THEN rd.w ELSE rd.calls[i][f]]

\* The manager once call i has taken a step that left r.
Settle(rd, i, r) ==
    [rd EXCEPT !.w = r.w, !.calls[i] = [f \in CallFields |-> r[f]]]

\* Call i is at pc, and the process that runs it lives.
At(i, pc) == ~agent.down /\ raid.calls[i].pc = pc

\* The calls under way.
InitsUnderWay == {i \in Calls : raid.calls[i].pc # "idle"}

\* runMdadm(args...) in the call r
runMdadm(r, args, ok) ==
    [r EXCEPT !.log = Append(@, args),
              !.err = MdadmFails(r.w, args, ok),
              !.w = IF MdadmFails(r.w, args, ok) THEN @ ELSE MdadmEffect(@, args)]

\* wipeDevice(device), lines 224-226: --zero-superblock is run and its
\* outcome dropped.
wipeDevice(r, device, ok) ==
    [runMdadm(r, <<"--zero-superblock", device>>, ok) EXCEPT !.err = FALSE]

\* fmt.Sprintf("%d", len(devices))
Itoa(n) == <<"0", "1", "2", "3", "4">>[n + 1]

\* validateDevice(device) returns an error: os.Stat does not find it.
validateDevice(w, device) == device \notin w.present

\* The call returns.
Returned(r, err) == [r EXCEPT !.pc = "idle", !.err = err, !.after = r.w]

\* ------------------------------------------- the orchestrator's calls
\* NewManager: the pvc controller is set up only with an attacher, and
\* cmd/controller gives one exactly when --pd-storage-class is set.
ClaimLoopEnabled == pdStorageClass # ""

\* The manager's client reads claims from the informer cache: a claim the
\* cache has yet to see is NotFound to Get and missing from List.
ClaimCached(n) == pvcs[n].exists /\ pvcs[n].cached

\* Watch events of claim n reach the pvc controller's queue; the events of a
\* claim follow the one that tells of its creation.
ClaimEvent(q, n) == IF ClaimLoopEnabled /\ pvcs[n].cached THEN q \cup {n} ELSE q

\* Delete of a claim: NotFound when absent; a claim with finalizers is only
\* marked (deletionTimestamp), one already marked is left as it is.
DeleteResult(n) == IF ~pvcs[n].exists THEN "NotFound" ELSE "ok"

DeleteChanges(n) == pvcs[n].exists /\ ~pvcs[n].deleting

DeletedPvc(n) ==
    IF ~pvcs[n].exists \/ pvcs[n].deleting THEN pvcs[n]
    ELSE IF pvcs[n].finalizers = <<>> THEN NoPvc
    ELSE [pvcs[n] EXCEPT !.deleting = TRUE]

\* Update of a claim's finalizers from a copy read at version rv.
UpdateResult(n, rv, fins) ==
    IF ~pvcs[n].exists THEN "NotFound"
    ELSE IF rv # pvcRV[n] THEN "Conflict"
    ELSE IF pvcs[n].deleting
            /\ \E i \in 1..Len(fins) : ~Contains(pvcs[n].finalizers, fins[i])
         THEN "Forbidden"
    ELSE "ok"

UpdatedPvc(n, fins) ==
    IF pvcs[n].deleting /\ fins = <<>> THEN NoPvc
    ELSE [pvcs[n] EXCEPT !.finalizers = fins]

\* The backing volume goes with its claim (reclaim policy Delete); a cloud
\* attachment is not undone by that.
ReleasedPvs(old, new) ==
    IF old.exists /\ ~new.exists /\ old.bound
    THEN [pvs EXCEPT ![old.volumeName].exists = FALSE]
    ELSE pvs

\* -------------------------------------------------- the environment
\* A node joins, with the labels of its pool.
CreateNode(n) ==
    /\ ~nodes[n].exists
    /\ budget[n] > 0
    /\ nodes' = [nodes EXCEPT ![n] = [exists |-> TRUE, deleting |-> FALSE,
                                      kind |-> labelsOf[n].kind,
                                      size |-> labelsOf[n].size]]
    /\ budget' = [budget EXCEPT ![n] = @ - 1]
    /\ nodeQ' = nodeQ \cup {n}
    /\ UNCHANGED <<raid, codec, pdStorageClass, labelsOf, mayTerminate, pvcs, pvcRV, pvs,
                   nextVol, cm, cmCache, claimQ, nw, cw, attachReqs, everBound,
                   agent>>

\* A node departs: the object is removed and its instance, with every disk
\* attached to it, is gone.
DeleteNode(n) ==
    /\ nodes[n].exists
    /\ nodes' = [nodes EXCEPT ![n] = NoNodeObj]
    /\ pvs' = [v \in DOMAIN pvs |->
                 IF pvs[v].attachedTo = n
                 THEN [pvs[v] EXCEPT !.attachedTo = NoNode] ELSE pvs[v]]
    /\ nodeQ' = nodeQ \cup {n}
    /\ UNCHANGED <<raid, codec, pdStorageClass, labelsOf, budget, mayTerminate, pvcs, pvcRV, nextVol, cm,
                   cmCache, claimQ, nw, cw, attachReqs, everBound, agent>>

\* The provisioner binds an unbound claim to a new volume.
BindClaim(n) ==
    /\ pvcs[n].exists /\ ~pvcs[n].bound /\ ~pvcs[n].deleting
    /\ nextVol < MaxVolumes
    /\ LET v == VolName(nextVol + 1) IN
       /\ pvcs' = [pvcs EXCEPT ![n].bound = TRUE, ![n].volumeName = v]
       /\ pvs' = [pvs EXCEPT ![v] = [NoPv EXCEPT !.exists = TRUE]]
       /\ everBound' = everBound \cup {<<v, n>>}
    /\ nextVol' = nextVol + 1
    /\ pvcRV' = [pvcRV EXCEPT ![n] = @ + 1]
    /\ claimQ' = ClaimEvent(claimQ, n)
    /\ UNCHANGED <<raid, codec, pdStorageClass, labelsOf, nodes, budget, mayTerminate, cm, cmCache,
                   nodeQ, nw, cw, attachReqs, agent>>

\* The orchestrator's own protection finalizer is dropped from a claim that
\* is being deleted and that no pod uses.
ReleaseProtection(n) ==
    /\ pvcs[n].exists /\ pvcs[n].deleting
    /\ Contains(pvcs[n].finalizers, pvcProtection)
    /\ LET new == UpdatedPvc(n, Without(pvcs[n].finalizers, pvcProtection)) IN
       /\ pvcs' = [pvcs EXCEPT ![n] = new]
       /\ pvs' = ReleasedPvs(pvcs[n], new)
    /\ pvcRV' = [pvcRV EXCEPT ![n] = @ + 1]
    /\ claimQ' = ClaimEvent(claimQ, n)
    /\ UNCHANGED <<raid, codec, pdStorageClass, labelsOf, nodes, budget, mayTerminate, nextVol, cm,
                   cmCache, nodeQ, nw, cw, attachReqs, everBound, agent>>

\* The informer cache catches up with the stored configuration object.
CacheSync ==
    /\ cmCache # cm
    /\ cmCache' = cm
    /\ UNCHANGED <<raid, codec, pdStorageClass, labelsOf, nodes, budget, mayTerminate, pvcs, pvcRV, pvs,
                   nextVol, cm, nodeQ, claimQ, nw, cw, attachReqs, everBound,
                   agent>>

\* The informer cache learns of a claim that was created, and the watch hands
\* the claim to the claim loop.
ClaimCacheSync(n) ==
    /\ pvcs[n].exists /\ ~pvcs[n].cached
    /\ pvcs' = [pvcs EXCEPT ![n].cached = TRUE]
    /\ claimQ' = IF ClaimLoopEnabled THEN claimQ \cup {n} ELSE claimQ
    /\ UNCHANGED <<raid, codec, pdStorageClass, labelsOf, nodes, budget, mayTerminate, pvcRV, pvs,
                   nextVol, cm, cmCache, nodeQ, nw, cw, attachReqs, everBound,
                   agent>>

\* A node is marked for deletion while something still holds it
\* (deletionTimestamp set, object present).
TerminateNode(n) ==
    /\ mayTerminate
    /\ nodes[n].exists /\ ~nodes[n].deleting
    /\ nodes' = [nodes EXCEPT ![n].deleting = TRUE]
    /\ nodeQ' = nodeQ \cup {n}
    /\ UNCHANGED <<raid, codec, pdStorageClass, labelsOf, budget, mayTerminate, pvcs, pvcRV, pvs, nextVol,
                   cm, cmCache, claimQ, nw, cw, attachReqs, everBound, agent>>

\* A node's status changes: the watch hands the node to the node loop again.
UpdateNode(n) ==
    /\ nodes[n].exists /\ n \notin nodeQ
    /\ nodeQ' = nodeQ \cup {n}
    /\ UNCHANGED <<raid, codec, pdStorageClass, labelsOf, nodes, budget, mayTerminate, pvcs,
                   pvcRV, pvs, nextVol, cm, cmCache, claimQ, nw, cw, attachReqs,
                   everBound, agent>>

\* ------------------------------------------------------ the node loop
\* reconciler.Reconcile, one step per orchestrator call.
NWIdle == [pc |-> "idle", key |-> NoNode, kind |-> NoLabel,
           label |-> NoSizeLabel, size |-> Zero,
           mustCreateMapping |-> FALSE, cmRV |-> 0, mapping |-> EmptyMapping,
           claim |-> NoNode, disk |-> NoDisk, pvcRV |-> 0, finalizers |-> <<>>,
           orphans |-> <<>>]

\* The claim loop's worker at rest.
CWIdle == [pc |-> "idle", key |-> NoNode, cmRV |-> 0, mapping |-> EmptyMapping,
           pvcRV |-> 0, finalizers |-> <<>>, bound |-> FALSE,
           volumeName |-> NoDisk, mustRequeue |-> FALSE]

NodeLive(n) == nodes[n].exists /\ ~nodes[n].deleting

\* The orders in which a range over a map of domain D, or a List of the
\* objects D from the cache, may meet its members.
Orders(D) ==
    {o \in [1..Cardinality(D) -> D] : \A i, j \in 1..Cardinality(D) : o[i] = o[j] => i = j}

\* The copy of claim n a List hands out.
ClaimCopy(n) == [name |-> n, rv |-> pvcRV[n], finalizers |-> pvcs[n].finalizers]

getVolumeTypeFromNode_NoSkip(node) ==
    [err |-> "", info |-> Info(IF node.kind = NoLabel THEN "" ELSE node.kind,
                               IF node.size.found
                               THEN ParseQuantity(node.size.text).value ELSE Zero,
                               NoDisk)]

getVolumeTypeFromNode_SizeFirst(node) ==
    IF node.size.found /\ ParseQuantity(node.size.text).err
    THEN [err |-> "bad size label", info |-> Info("", Zero, NoDisk)]
    ELSE IF node.kind = NoLabel
    THEN [err |-> "label not found on node", info |-> Info("", Zero, NoDisk)]
    ELSE [err |-> "", info |-> Info(node.kind, Zero, NoDisk)]

\* getVolumeTypeFromNode(node), node being the node's labels: kind the value
\* of the cache-kind label (NoLabel without it), size the size label.
\* "not found" without the cache-kind label; else the kind, the size the
\* size label parses to (zero without it), and no disk; an error for a size
\* label that is no quantity.
getVolumeTypeFromNode(node) ==
    IF node.kind = NoLabel
    THEN [err |-> "label not found on node", info |-> Info("", Zero, NoDisk)]
    ELSE IF ~node.size.found
    THEN [err |-> "", info |-> Info(node.kind, Zero, NoDisk)]
    ELSE IF ParseQuantity(node.size.text).err
    THEN [err |-> "bad size label", info |-> Info("", Zero, NoDisk)]
    ELSE [err |-> "", info |-> Info(node.kind, ParseQuantity(node.size.text).value,
                                    NoDisk)]

\* The labels of a pd node as TestPdNode has them, of a tmpfs node, and of a
\* pd node without a size.
PdLabels == [kind |-> pdVolumeType, size |-> SizeLabel(<<"5", "0", "G", "i">>)]

TmpfsLabels == [kind |-> "tmpfs", size |-> SizeLabel(<<"1", "0", "M", "i">>)]

UnsizedLabels == [kind |-> pdVolumeType, size |-> NoSizeLabel]

\* The labels the nodes of the clusters explored may carry, and what
\* getVolumeTypeFromNode returns for each, worked out once.
NodeLabelsMet ==
    {[kind |-> k, size |-> l] :
        k \in {pdVolumeType, "tmpfs", "lssd", "floppy", NoLabel},
        l \in {PdLabels.size, TmpfsLabels.size, SizeLabel(<<"1">>), NoSizeLabel}}

LabelsRead == [node \in NodeLabelsMet |-> getVolumeTypeFromNode(node)]

\* The worker ends its reconcile; an error re-enqueues the key.
NodeDone_NoRequeue(k, requeue) ==
    /\ nw' = NWIdle
    /\ nodeQ' = nodeQ

NodeDone(k, requeue) ==
    /\ nw' = NWIdle
    /\ nodeQ' = IF requeue THEN nodeQ \cup {k} ELSE nodeQ

\* A reconcile that does not look at the node's deletion timestamp.
Reconcile_GetNode_Marked(k, getOk) ==
    /\ nw.pc = "idle" /\ k \in nodeQ
    /\ nodeQ' = nodeQ \ {k}
    /\ nw' = IF ~getOk \/ ~nodes[k].exists
             THEN [NWIdle EXCEPT !.pc = "sweep", !.key = k]
             ELSE [NWIdle EXCEPT !.pc = "getConfigMap", !.key = k,
                                 !.kind = nodes[k].kind, !.label = nodes[k].size]
    /\ UNCHANGED <<raid, codec, pdStorageClass, labelsOf, nodes, budget, mayTerminate, pvcs, pvcRV, pvs,
                   nextVol, cm, cmCache, claimQ, cw, attachReqs, everBound, agent>>

\* Reconcile, lines 151-162: take a key, fetch the node; any error of the
\* fetch (getOk: there is none but NotFound) and a node marked for deletion
\* lead to the sweep.
Reconcile_GetNode(k, getOk) ==
    /\ nw.pc = "idle" /\ k \in nodeQ
    /\ nodeQ' = nodeQ \ {k}
    /\ nw' = IF ~getOk \/ ~NodeLive(k)
             THEN [NWIdle EXCEPT !.pc = "sweep", !.key = k]
             ELSE [NWIdle EXCEPT !.pc = "getConfigMap", !.key = k,
                                 !.kind = nodes[k].kind, !.label = nodes[k].size]
    /\ UNCHANGED <<raid, codec, pdStorageClass, labelsOf, nodes, budget, mayTerminate, pvcs, pvcRV, pvs,
                   nextVol, cm, cmCache, claimQ, cw, attachReqs, everBound, agent>>

\* The controller's process is replaced after a panic nothing recovered:
\* both workers start idle, the informers list what there is and hand
\* every node and every claim to the loops.
ProcessRestarted ==
    /\ nw' = NWIdle
    /\ cw' = CWIdle
    /\ cmCache' = cm
    /\ pvcs' = [n \in Nodes |-> [pvcs[n] EXCEPT !.cached = pvcs[n].exists]]
    /\ nodeQ' = {n \in Nodes : nodes[n].exists}
    /\ claimQ' = IF ClaimLoopEnabled THEN {n \in Nodes : pvcs[n].exists} ELSE {}

\* getVolumeTypeMapping panics on the value the cache holds.
ParsePanics == cmCache.exists /\ cmCache.bad /\ cmCache.panics

\* Reconcile, lines 164-202: fetch the mapping (from the cache), read the
\* node's labels, and check what a pd node needs.  getOk: the fetch returns
\* the object or NotFound; any other error ends the reconcile without one.
\* A value that getVolumeTypeMapping returns an error for is taken as the
\* empty map.  On one it panics for, the reconcile ends there: the worker
\* recovers the panic and returns it as an error, which requeues the key,
\* or, in a build that does not recover, the process dies and is replaced.
Reconcile_GetConfigMap(getOk) ==
    /\ nw.pc = "getConfigMap"
    /\ LET got == LabelsRead[[kind |-> nw.kind, size |-> nw.label]]
           read == [nw EXCEPT !.size = got.info.Size,
                              !.mustCreateMapping = ~cmCache.exists,
                              !.cmRV = cmCache.rv,
                              !.mapping = IF cmCache.exists /\ ~cmCache.bad
                                          THEN cmCache.data
                                          ELSE EmptyMapping]
       IN IF getOk /\ ParsePanics
          THEN \/ NodeDone(nw.key, TRUE) /\ UNCHANGED <<pvcs, cmCache, claimQ, cw>>
               \/ ProcessRestarted
          ELSE /\ UNCHANGED <<pvcs, cmCache, claimQ, cw>>
               /\ IF ~getOk THEN NodeDone(nw.key, FALSE)
                  ELSE IF got.err # ""
                  THEN NodeDone(nw.key, got.err # "label not found on node")
                  ELSE IF got.info.VolumeType = pdVolumeType
                  THEN IF pdStorageClass = "" \/ IsZero(got.info.Size)
                       THEN NodeDone(nw.key, TRUE)
                       ELSE nw' = [read EXCEPT !.pc = "getPVC"] /\ nodeQ' = nodeQ
                  ELSE nw' = [read EXCEPT !.pc = "writeMapping"] /\ nodeQ' = nodeQ
    /\ UNCHANGED <<raid, codec, pdStorageClass, labelsOf, nodes, budget, mayTerminate, pvcRV, pvs,
                   nextVol, cm, attachReqs, everBound, agent>>

\* updatePdVolumeType, lines 235-250, and the finalizer scan of
\* updatePVCForLifecycle: fetch the claim named like the node (from the
\* cache).  NotFound names the claim to create; an error other than NotFound
\* (~getOk) leaves the claim object empty, nameless and without finalizers,
\* and updatePVCForLifecycle goes on to update it.
updatePdVolumeType_Get(getOk) ==
    /\ nw.pc = "getPVC"
    /\ LET pvc == pvcs[nw.key] IN
       nw' = IF ~getOk THEN [nw EXCEPT !.pc = "updatePVC"]
             ELSE IF ~ClaimCached(nw.key)
             THEN [nw EXCEPT !.pc = "createPVC", !.claim = nw.key]
             ELSE [nw EXCEPT
                     !.claim = nw.key,
                     !.disk = IF pvc.bound THEN pvc.volumeName ELSE NoDisk,
                     !.pvcRV = pvcRV[nw.key],
                     !.finalizers = pvc.finalizers,
                     !.pc = IF Contains(pvc.finalizers, finalizerLabel)
                            THEN "writeMapping" ELSE "updatePVC"]
    /\ UNCHANGED <<raid, codec, pdStorageClass, labelsOf, nodes, budget, mayTerminate, pvcs, pvcRV, pvs,
                   nextVol, cm, cmCache, nodeQ, claimQ, cw, attachReqs,
                   everBound, agent>>

\* The claim updatePdVolumeType builds and updatePVCForLifecycle creates; the
\* orchestrator's admission adds its protection finalizer.
NewClaim_Filesystem(size) ==
    [exists |-> TRUE, deleting |-> FALSE,
     finalizers |-> <<finalizerLabel, pvcProtection>>,
     bound |-> FALSE, volumeName |-> NoDisk,
     storageClass |-> pdStorageClass, volumeMode |-> "Filesystem",
     accessModes |-> <<ReadWriteOnce>>, request |-> size, cached |-> FALSE]

NewClaim(size) ==
    [exists |-> TRUE, deleting |-> FALSE,
     finalizers |-> <<finalizerLabel, pvcProtection>>,
     bound |-> FALSE, volumeName |-> NoDisk,
     storageClass |-> pdStorageClass, volumeMode |-> PersistentVolumeBlock,
     accessModes |-> <<ReadWriteOnce>>, request |-> size, cached |-> FALSE]

\* updatePVCForLifecycle, needCreate: r.Create(pvc); AlreadyExists when the
\* claim is stored.  The claim loop hears of the claim when the cache does.
updatePVCForLifecycle_Create ==
    /\ nw.pc = "createPVC"
    /\ IF pvcs[nw.key].exists
       THEN /\ NodeDone(nw.key, TRUE)
            /\ UNCHANGED <<pvcs, pvcRV, claimQ>>
       ELSE /\ pvcs' = [pvcs EXCEPT ![nw.key] = NewClaim(nw.size)]
            /\ pvcRV' = [pvcRV EXCEPT ![nw.key] = @ + 1]
            /\ claimQ' = claimQ
            /\ nw' = [nw EXCEPT !.pc = "writeMapping"]
            /\ nodeQ' = nodeQ
    /\ UNCHANGED <<raid, codec, pdStorageClass, labelsOf, nodes, budget, mayTerminate, pvs, nextVol, cm,
                   cmCache, cw, attachReqs, everBound, agent>>

\* updatePVCForLifecycle, changed: r.Update(pvc) with the finalizer appended;
\* a claim object without a name is refused.
updatePVCForLifecycle_Update ==
    /\ nw.pc = "updatePVC"
    /\ LET fins == Append(nw.finalizers, finalizerLabel) IN
       IF nw.claim # NoNode /\ UpdateResult(nw.key, nw.pvcRV, fins) = "ok"
       THEN /\ pvcs' = [pvcs EXCEPT ![nw.key] = UpdatedPvc(nw.key, fins)]
            /\ pvcRV' = [pvcRV EXCEPT ![nw.key] = @ + 1]
            /\ claimQ' = ClaimEvent(claimQ, nw.key)
            /\ nw' = [nw EXCEPT !.pc = "writeMapping"]
            /\ nodeQ' = nodeQ
       ELSE /\ NodeDone(nw.key, TRUE)
            /\ UNCHANGED <<pvcs, pvcRV, claimQ>>
    /\ UNCHANGED <<raid, codec, pdStorageClass, labelsOf, nodes, budget, mayTerminate, pvs, nextVol, cm,
                   cmCache, cw, attachReqs, everBound, agent>>

\* A store without optimistic concurrency: an update is taken whatever
\* version the copy carries.
StoredCm_NoConflict(mustCreate, rv, data) ==
    IF mustCreate
    THEN IF cm.exists THEN [err |-> "AlreadyExists", cm |-> cm]
         ELSE [err |-> "", cm |-> [exists |-> TRUE, rv |-> 1, data |-> data,
                                    bad |-> FALSE, panics |-> FALSE]]
    ELSE IF ~cm.exists THEN [err |-> "NotFound", cm |-> cm]
    ELSE IF cm.data = data /\ ~cm.bad THEN [err |-> "", cm |-> cm]
    ELSE [err |-> "", cm |-> [cm EXCEPT !.rv = @ + 1, !.data = data,
                                        !.bad = FALSE, !.panics = FALSE]]

\* Create of the configuration object: AlreadyExists when it is stored.
\* Update: Conflict when the copy's version is not the stored one; an
\* update that changes nothing stores nothing.
StoredCm(mustCreate, rv, data) ==
    IF mustCreate
    THEN IF cm.exists THEN [err |-> "AlreadyExists", cm |-> cm]
         ELSE [err |-> "", cm |-> [exists |-> TRUE, rv |-> 1, data |-> data,
                                    bad |-> FALSE, panics |-> FALSE]]
    ELSE IF ~cm.exists THEN [err |-> "NotFound", cm |-> cm]
    ELSE IF cm.rv # rv THEN [err |-> "Conflict", cm |-> cm]
    ELSE IF cm.data = data /\ ~cm.bad THEN [err |-> "", cm |-> cm]
    ELSE [err |-> "", cm |-> [cm EXCEPT !.rv = @ + 1, !.data = data,
                                        !.bad = FALSE, !.panics = FALSE]]

\* Reconcile, lines 204-223: put the node's record into the mapping and
\* persist it (create on first write, update thereafter).
Reconcile_WriteMapping ==
    /\ nw.pc = "writeMapping"
    /\ LET mapping == MapPut(nw.mapping, nw.key, Info(nw.kind, nw.size, nw.disk))
           res == StoredCm(nw.mustCreateMapping, nw.cmRV, mapping)
       IN /\ cm' = res.cm
          /\ NodeDone(nw.key, res.err # "")
    /\ UNCHANGED <<raid, codec, pdStorageClass, labelsOf, nodes, budget, mayTerminate, pvcs, pvcRV, pvs,
                   nextVol, cmCache, claimQ, cw, attachReqs, everBound, agent>>

\* deleteOrphanedPDs, lines 383-386: list the claims (from the cache, in
\* the order the cache hands them out).  listOk: the List returns a list;
\* its error ends the sweep, and Reconcile drops the sweep's error.
deleteOrphanedPDs_ListClaims(listOk) ==
    /\ nw.pc = "sweep"
    /\ IF ~listOk THEN NodeDone(nw.key, FALSE)
       ELSE \E order \in Orders({n \in Nodes : ClaimCached(n)}) :
              /\ nw' = [nw EXCEPT !.pc = "listNodes",
                                  !.orphans = [i \in 1..Len(order) |-> ClaimCopy(order[i])]]
              /\ nodeQ' = nodeQ
    /\ UNCHANGED <<raid, codec, pdStorageClass, labelsOf, nodes, budget, mayTerminate, pvcs, pvcRV, pvs,
                   nextVol, cm, cmCache, claimQ, cw, attachReqs, everBound, agent>>

\* deleteOrphanedPDs, lines 387-401: list the nodes, and keep of the listed
\* claims those whose name is not the name of a listed node without
\* deletionTimestamp.
deleteOrphanedPDs_ListNodes(listOk) ==
    /\ nw.pc = "listNodes"
    /\ LET orphans == SelectSeq(nw.orphans, LAMBDA c : ~NodeLive(c.name)) IN
       IF ~listOk \/ orphans = <<>>
       THEN NodeDone(nw.key, FALSE)
       ELSE nw' = [nw EXCEPT !.pc = "delete", !.orphans = orphans]
            /\ nodeQ' = nodeQ
    /\ UNCHANGED <<raid, codec, pdStorageClass, labelsOf, nodes, budget, mayTerminate, pvcs, pvcRV, pvs,
                   nextVol, cm, cmCache, claimQ, cw, attachReqs, everBound, agent>>

\* What the sweep does after one deletePVC: the next orphan, or the end (an
\* error ends the sweep, and Reconcile drops the sweep's error).
SweepNext(ok) ==
    IF ok /\ Len(nw.orphans) > 1
    THEN nw' = [nw EXCEPT !.pc = "delete", !.orphans = Tail(@)] /\ nodeQ' = nodeQ
    ELSE NodeDone(nw.key, FALSE)

\* deletePVC, lines 363-374, called by the sweep: r.Delete(pvc).
deleteOrphanedPDs_Delete ==
    /\ nw.pc = "delete"
    /\ LET c == nw.orphans[1] IN
       /\ pvcs' = [pvcs EXCEPT ![c.name] = DeletedPvc(c.name)]
       /\ pvs' = ReleasedPvs(pvcs[c.name], DeletedPvc(c.name))
       /\ pvcRV' = IF DeleteChanges(c.name)
                   THEN [pvcRV EXCEPT ![c.name] = @ + 1] ELSE pvcRV
       /\ claimQ' = IF DeleteChanges(c.name) THEN ClaimEvent(claimQ, c.name)
                    ELSE claimQ
       /\ IF DeleteResult(c.name) = "ok" /\ Contains(c.finalizers, finalizerLabel)
          THEN nw' = [nw EXCEPT !.pc = "strip"] /\ nodeQ' = nodeQ
          ELSE SweepNext(DeleteResult(c.name) = "ok")
    /\ UNCHANGED <<raid, codec, pdStorageClass, labelsOf, nodes, budget, mayTerminate, nextVol, cm,
                   cmCache, cw, attachReqs, everBound, agent>>

\* deletePVC, lines 375-379, called by the sweep: r.Update(pvc) with the
\* retention finalizer taken out of the copy's list.
deleteOrphanedPDs_Strip ==
    /\ nw.pc = "strip"
    /\ LET c == nw.orphans[1]
           fins == Without(c.finalizers, finalizerLabel)
           ok == UpdateResult(c.name, c.rv, fins) = "ok"
       IN /\ pvcs' = IF ok THEN [pvcs EXCEPT ![c.name] = UpdatedPvc(c.name, fins)]
                     ELSE pvcs
          /\ pvs' = IF ok THEN ReleasedPvs(pvcs[c.name], UpdatedPvc(c.name, fins))
                    ELSE pvs
          /\ pvcRV' = IF ok THEN [pvcRV EXCEPT ![c.name] = @ + 1] ELSE pvcRV
          /\ claimQ' = IF ok THEN ClaimEvent(claimQ, c.name) ELSE claimQ
          /\ SweepNext(ok)
    /\ UNCHANGED <<raid, codec, pdStorageClass, labelsOf, nodes, budget, mayTerminate, nextVol, cm,
                   cmCache, cw, attachReqs, everBound, agent>>

\* ----------------------------------------------------- the claim loop
\* pvcReconciler.Reconcile, one step per orchestrator or attacher call
\* (the idle worker CWIdle is defined with the node loop's, above).
\* The worker ends its reconcile on queue q; an error or Requeue re-enqueues.
ClaimDone_NoRequeue(q, k, requeue) ==
    /\ cw' = CWIdle
    /\ claimQ' = q

ClaimDone(q, k, requeue) ==
    /\ cw' = CWIdle
    /\ claimQ' = IF requeue THEN q \cup {k} ELSE q

\* Reconcile, lines 285-301: take a key, fetch the mapping (from the cache)
\* and look the claim's name up in it.  An absent object asks for a
\* requeue, a value that fails to parse and an unknown name are errors; a
\* value the parse panics on ends the reconcile as it does the node loop's.
pvcReconcile_GetConfigMap(k) ==
    /\ cw.pc = "idle" /\ k \in claimQ
    /\ IF ParsePanics
       THEN \/ ClaimDone(claimQ \ {k}, k, TRUE) /\ UNCHANGED <<pvcs, cmCache, nodeQ, nw>>
            \/ ProcessRestarted
       ELSE /\ UNCHANGED <<pvcs, cmCache, nodeQ, nw>>
            /\ IF ~cmCache.exists \/ cmCache.bad \/ k \notin DOMAIN cmCache.data
               THEN ClaimDone(claimQ \ {k}, k, TRUE)
               ELSE /\ cw' = [CWIdle EXCEPT !.pc = "getPVC", !.key = k,
                                            !.cmRV = cmCache.rv,
                                            !.mapping = cmCache.data]
                    /\ claimQ' = claimQ \ {k}
    /\ UNCHANGED <<raid, codec, pdStorageClass, labelsOf, nodes, budget, mayTerminate, pvcRV, pvs,
                   nextVol, cm, attachReqs, everBound, agent>>

\* Reconcile, lines 303-306: fetch the claim (from the cache).
pvcReconcile_GetPVC ==
    /\ cw.pc = "getPVC"
    /\ LET pvc == pvcs[cw.key] IN
       IF ~ClaimCached(cw.key) THEN ClaimDone(claimQ, cw.key, TRUE)
       ELSE /\ cw' = [cw EXCEPT !.pc = "getNode", !.pvcRV = pvcRV[cw.key],
                                !.finalizers = pvc.finalizers,
                                !.bound = pvc.bound,
                                !.volumeName = pvc.volumeName]
            /\ claimQ' = claimQ
    /\ UNCHANGED <<raid, codec, pdStorageClass, labelsOf, nodes, budget, mayTerminate, pvcs, pvcRV, pvs,
                   nextVol, cm, cmCache, nodeQ, nw, attachReqs, everBound, agent>>

\* A claim loop that does not look at whether the node is there.
pvcReconcile_GetNode_AnyNode ==
    /\ cw.pc = "getNode"
    /\ IF ~cw.bound THEN ClaimDone(claimQ, cw.key, FALSE)
       ELSE cw' = [cw EXCEPT !.pc =
                      IF cw.mapping[cw.key].Disk # cw.volumeName
                      THEN "updateMapping" ELSE "getPV"]
            /\ claimQ' = claimQ
    /\ UNCHANGED <<raid, codec, pdStorageClass, labelsOf, nodes, budget, mayTerminate, pvcs, pvcRV, pvs,
                   nextVol, cm, cmCache, nodeQ, nw, attachReqs, everBound, agent>>

\* Reconcile, lines 308-324: fetch the node of the claim's name; without a
\* live node the claim is deleted, else decide what is left to do.
pvcReconcile_GetNode ==
    /\ cw.pc = "getNode"
    /\ IF ~NodeLive(cw.key)
       THEN cw' = [cw EXCEPT !.pc = "delete"] /\ claimQ' = claimQ
       ELSE IF ~cw.bound THEN ClaimDone(claimQ, cw.key, FALSE)
       ELSE cw' = [cw EXCEPT !.pc =
                      IF cw.mapping[cw.key].Disk # cw.volumeName
                      THEN "updateMapping" ELSE "getPV"]
            /\ claimQ' = claimQ
    /\ UNCHANGED <<raid, codec, pdStorageClass, labelsOf, nodes, budget, mayTerminate, pvcs, pvcRV, pvs,
                   nextVol, cm, cmCache, nodeQ, nw, attachReqs, everBound, agent>>

\* Reconcile, lines 333-336: a failed update of the mapping asks for a requeue.
UpdateFailed_Ignored(err) == FALSE

UpdateFailed(err) == err # ""

\* Reconcile, lines 324-337: write the bound volume's name into the mapping;
\* a failed update only asks for a requeue.
pvcReconcile_UpdateMapping ==
    /\ cw.pc = "updateMapping"
    /\ LET info == [cw.mapping[cw.key] EXCEPT !.Disk = cw.volumeName]
           res == StoredCm(FALSE, cw.cmRV, MapPut(cw.mapping, cw.key, info))
       IN /\ cm' = res.cm
          /\ cw' = [cw EXCEPT !.pc = "getPV", !.mustRequeue = UpdateFailed(res.err)]
    /\ UNCHANGED <<raid, codec, pdStorageClass, labelsOf, nodes, budget, mayTerminate, pvcs, pvcRV, pvs,
                   nextVol, cmCache, nodeQ, claimQ, nw, attachReqs, everBound,
                   agent>>

\* Reconcile, lines 340-344: fetch the bound volume.
pvcReconcile_GetPV ==
    /\ cw.pc = "getPV"
    /\ IF ~pvs[cw.volumeName].exists
       THEN ClaimDone(claimQ, cw.key, TRUE)
       ELSE cw' = [cw EXCEPT !.pc = "getZone"] /\ claimQ' = claimQ
    /\ UNCHANGED <<raid, codec, pdStorageClass, labelsOf, nodes, budget, mayTerminate, pvcs, pvcRV, pvs,
                   nextVol, cm, cmCache, nodeQ, nw, attachReqs, everBound, agent>>

\* attacher.diskIsAttached, lines 408-420: the attacher fetches the node,
\* with a client of its own that reads from the orchestrator, for its zone.
diskIsAttached_GetNode ==
    /\ cw.pc = "getZone"
    /\ IF ~nodes[cw.key].exists
       THEN ClaimDone(claimQ, cw.key, TRUE)
       ELSE cw' = [cw EXCEPT !.pc = "isAttached"] /\ claimQ' = claimQ
    /\ UNCHANGED <<raid, codec, pdStorageClass, labelsOf, nodes, budget, mayTerminate, pvcs, pvcRV, pvs,
                   nextVol, cm, cmCache, nodeQ, nw, attachReqs, everBound, agent>>

\* attacher.diskIsAttached, lines 422-431: whether the node's instance lists
\* the disk the handle names.
diskIsAttached(handle, nodeName) == pvs[parseVolumeHandle(handle)].attachedTo = nodeName

\* A reconcile that asks the attacher and leaves it at that, whatever the
\* answer.
pvcReconcile_IsAttached_NoAttach(callOk) ==
    /\ cw.pc = "isAttached"
    /\ IF ~callOk \/ ~nodes[cw.key].exists
       THEN ClaimDone(claimQ, cw.key, TRUE)
       ELSE ClaimDone(claimQ, cw.key, cw.mustRequeue)
    /\ UNCHANGED <<raid, codec, pdStorageClass, labelsOf, nodes, budget, mayTerminate, pvcs, pvcRV, pvs,
                   nextVol, cm, cmCache, nodeQ, nw, attachReqs, everBound, agent>>

\* Reconcile, lines 345-349, and the provider's answer to diskIsAttached.
\* callOk: whether the provider's query returns an answer for an instance
\* that is there.
pvcReconcile_IsAttached(callOk) ==
    /\ cw.pc = "isAttached"
    /\ IF ~callOk \/ ~nodes[cw.key].exists
       THEN ClaimDone(claimQ, cw.key, TRUE)
       ELSE IF diskIsAttached(VolumeHandle(cw.volumeName), cw.key)
       THEN ClaimDone(claimQ, cw.key, cw.mustRequeue)
       ELSE cw' = [cw EXCEPT !.pc = "attach"] /\ claimQ' = claimQ
    /\ UNCHANGED <<raid, codec, pdStorageClass, labelsOf, nodes, budget, mayTerminate, pvcs, pvcRV, pvs,
                   nextVol, cm, cmCache, nodeQ, nw, attachReqs, everBound, agent>>

\* The pair attachDisk is called with.
AttachArgs_OtherNode ==
    <<VolumeHandle(cw.volumeName), CHOOSE n \in Nodes : n # cw.key>>

AttachArgs == <<VolumeHandle(cw.volumeName), cw.key>>

\* attacher.attachDisk: the provider attaches the disk to the instance of
\* that name, when there is one and the disk is free.
CanAttach(handle, nodeName) ==
    /\ nodeName \in Nodes /\ nodes[nodeName].exists
    /\ pvs[parseVolumeHandle(handle)].attachedTo \in {NoNode, nodeName}

\* Reconcile, lines 349-350, and attacher.attachDisk, lines 435-449: the
\* request to attach the volume to the node is sent.  callOk: the provider
\* takes the request and starts an operation; else its error is returned.
pvcReconcile_Attach(callOk) ==
    /\ cw.pc = "attach"
    /\ LET handle == AttachArgs[1]
           nodeName == AttachArgs[2]
       IN /\ attachReqs' = attachReqs \cup {<<handle, nodeName>>}
          /\ IF callOk
             THEN /\ pvs' = [pvs EXCEPT ![parseVolumeHandle(handle)].op = "running",
                                        ![parseVolumeHandle(handle)].opNode = nodeName]
                  /\ cw' = [cw EXCEPT !.pc = "attachWait"]
                  /\ claimQ' = claimQ
             ELSE /\ pvs' = pvs
                  /\ ClaimDone(claimQ, cw.key, TRUE)
    /\ UNCHANGED <<raid, codec, pdStorageClass, labelsOf, nodes, budget, mayTerminate, pvcs, pvcRV,
                   nextVol, cm, cmCache, nodeQ, nw, everBound, agent>>

\* The reconcile that waits for the operation on volume v, if any.
Awaited(v) == cw.pc = "attachWait" /\ parseVolumeHandle(AttachArgs[1]) = v

\* The provider's attach operation on volume v completes: with the disk
\* attached, when the provider can (ok) and the instance is there and the
\* disk free, else in an error.  An operation no reconcile waits for any
\* more is looked at by none.
AttachCompletes(v, ok) ==
    /\ pvs[v].op = "running"
    /\ LET can == ok /\ CanAttach(VolumeHandle(v), pvs[v].opNode)
       IN pvs' = [pvs EXCEPT
                     ![v].attachedTo = IF can THEN pvs[v].opNode ELSE @,
                     ![v].op = IF ~Awaited(v) THEN "none"
                               ELSE IF can THEN "done" ELSE "failed",
                     ![v].opNode = IF ~Awaited(v) THEN NoNode ELSE @]
    /\ UNCHANGED <<raid, codec, pdStorageClass, labelsOf, nodes, budget, mayTerminate, pvcs, pvcRV,
                   nextVol, cm, cmCache, nodeQ, claimQ, nw, cw, attachReqs, everBound,
                   agent>>

\* What a wait for the operation ends in: the operation seen done, an
\* error of the query for it, the two minutes over.
PollAnswers == {"done", "error", "timeout"}

\* attacher.attachDisk, lines 450-470, and Reconcile, lines 350-355: the
\* operation is polled every five seconds for two minutes.  The wait ends
\* when the operation is seen done, with its error if it has one; when the
\* query for it fails; and when the time is over with the operation still
\* running.
attachDisk_Poll(answer) ==
    /\ cw.pc = "attachWait"
    /\ LET v == parseVolumeHandle(AttachArgs[1])
           status == pvs[v].op
       IN /\ answer = "timeout" => status = "running"
          /\ answer = "done" => status \in {"done", "failed"}
          /\ pvs' = IF status # "running"
                    THEN [pvs EXCEPT ![v].op = "none", ![v].opNode = NoNode]
                    ELSE pvs
          /\ ClaimDone(claimQ, cw.key,
                       ~(answer = "done" /\ status = "done") \/ cw.mustRequeue)
    /\ UNCHANGED <<raid, codec, pdStorageClass, labelsOf, nodes, budget, mayTerminate, pvcs, pvcRV,
                   nextVol, cm, cmCache, nodeQ, nw, attachReqs, everBound, agent>>

\* A deletePVC that goes on to the finalizers whatever r.Delete returned.
pvcReconcile_Delete_Unchecked ==
    /\ cw.pc = "delete"
    /\ LET k == cw.key
           q == IF DeleteChanges(k) THEN ClaimEvent(claimQ, k) ELSE claimQ
       IN /\ pvcs' = [pvcs EXCEPT ![k] = DeletedPvc(k)]
          /\ pvs' = ReleasedPvs(pvcs[k], DeletedPvc(k))
          /\ pvcRV' = IF DeleteChanges(k) THEN [pvcRV EXCEPT ![k] = @ + 1]
                      ELSE pvcRV
          /\ IF Contains(cw.finalizers, finalizerLabel)
             THEN cw' = [cw EXCEPT !.pc = "strip"] /\ claimQ' = q
             ELSE ClaimDone(q, k, FALSE)
    /\ UNCHANGED <<raid, codec, pdStorageClass, labelsOf, nodes, budget, mayTerminate, nextVol, cm,
                   cmCache, nodeQ, nw, attachReqs, everBound, agent>>

\* deletePVC, lines 363-374, called by the claim loop: r.Delete(pvc).
pvcReconcile_Delete ==
    /\ cw.pc = "delete"
    /\ LET k == cw.key
           q == IF DeleteChanges(k) THEN ClaimEvent(claimQ, k) ELSE claimQ
       IN /\ pvcs' = [pvcs EXCEPT ![k] = DeletedPvc(k)]
          /\ pvs' = ReleasedPvs(pvcs[k], DeletedPvc(k))
          /\ pvcRV' = IF DeleteChanges(k) THEN [pvcRV EXCEPT ![k] = @ + 1]
                      ELSE pvcRV
          /\ IF DeleteResult(k) # "ok" THEN ClaimDone(q, k, TRUE)
             ELSE IF Contains(cw.finalizers, finalizerLabel)
             THEN cw' = [cw EXCEPT !.pc = "strip"] /\ claimQ' = q
             ELSE ClaimDone(q, k, FALSE)
    /\ UNCHANGED <<raid, codec, pdStorageClass, labelsOf, nodes, budget, mayTerminate, nextVol, cm,
                   cmCache, nodeQ, nw, attachReqs, everBound, agent>>

\* deletePVC, lines 375-379, called by the claim loop: r.Update(pvc) with
\* the retention finalizer taken out of the copy's list.
pvcReconcile_Strip ==
    /\ cw.pc = "strip"
    /\ LET k == cw.key
           fins == Without(cw.finalizers, finalizerLabel)
           ok == UpdateResult(k, cw.pvcRV, fins) = "ok"
       IN /\ pvcs' = IF ok THEN [pvcs EXCEPT ![k] = UpdatedPvc(k, fins)] ELSE pvcs
          /\ pvs' = IF ok THEN ReleasedPvs(pvcs[k], UpdatedPvc(k, fins)) ELSE pvs
          /\ pvcRV' = IF ok THEN [pvcRV EXCEPT ![k] = @ + 1] ELSE pvcRV
          /\ ClaimDone(IF ok THEN ClaimEvent(claimQ, k) ELSE claimQ, k, ~ok)
    /\ UNCHANGED <<raid, codec, pdStorageClass, labelsOf, nodes, budget, mayTerminate, nextVol, cm,
                   cmCache, nodeQ, nw, attachReqs, everBound, agent>>

\* ---------------------------------------------------------- the agent
\* One agent process on node AgentNode (Driver.nodeId).
AgentNode == "a"
OtherNode == "b"
tmpfsPath == "/local/tmpfs"
lssdPath == "/local/lssd"
pdPath == "/local/pd"
\* Target paths of publish requests; "" is the missing one.
Targets == {"", "/t1", "/t2"}

\* The target paths something can be mounted on.
MountTargets == Targets \ {""}

Rpcs == 1..MaxPublishes

\* One publish call.  pc: new (not yet received); create (inside
\* createCacheVolume, about to poll the map); stat, raid, init, array,
\* scan, tool (inside a constructor: before the look at the device path,
\* before the listing of the local SSDs, before the array's Init, while
\* Init (the call init of the array manager) runs, before the read of the
\* mount table, before the mount); assign
\* (createCacheVolume has returned, d.vol not yet written); mount (past the
\* lazy construction, about to look at the target); bind (the target was no
\* mount point); binding (d.vol.Path() read, the mount command running); log
\* (the bind mount made); done.
\* res: what createCacheVolume is about to return; ran: the construction
\* started an external tool; late: it did so after another construction had
\* succeeded; ready: the map it read named a disk for the node and the
\* disk's device path was there when it looked.
NoResult == [path |-> "nil", kind |-> "", cause |-> ""]

NoRpc == [pc |-> "new", target |-> "", sawNil |-> FALSE, ran |-> FALSE,
          late |-> FALSE, ready |-> FALSE, res |-> NoResult, code |-> "",
          cause |-> "", init |-> 0]

\* vol: Driver.vol ("nil" or the local volume's path); device: whether
\* /dev/disk/by-id/google-<disk> exists; table: what the process's mount
\* table says of the local mount path ("none", "own" device, "other"
\* device); mounts: the bind-mounted targets; built: constructions that
\* succeeded; down: the process has crashed; unpublished: the last
\* unpublish's status.
\* What a mount exposes is named by a number, its contents: made counts the
\* tmpfs instances mounted so far, top is what the local mount path shows,
\* view[t] the bind mounts stacked on target t (the first is on top), each
\* with its contents and the process (epoch) that made it.  The process
\* itself: epoch counts restarts, oldMade is made as the process started.
\* contended: targets two publish calls were under way for at once; gone:
\* the contents of what this process mounted and unmounted again.
NoAgent == [vol |-> "nil", device |-> FALSE, table |-> "none", mounts |-> {},
            rpc |-> [i \in Rpcs |-> NoRpc], built |-> 0, down |-> FALSE,
            unpublished |-> "", made |-> 0, top |-> 0,
            view |-> [t \in MountTargets |-> <<>>], epoch |-> 0,
            oldMade |-> 0, contended |-> {}, gone |-> {}]

\* A constructor's result: the volume's path, or an error of a kind.
Built(path) == [path |-> path, kind |-> "", cause |-> ""]

PendingError(cause) == [path |-> "nil", kind |-> "pending", cause |-> cause]

TerminalError(cause) == [path |-> "nil", kind |-> "terminal", cause |-> cause]

\* errors.Is(err, &common.VolumePendingError{})
IsPending(res) == res.kind = "pending"

\* Where a construction goes next, and with what result in hand.
Returns(res) == [pc |-> "assign", res |-> res]

GoesOn(pc, path) == [pc |-> pc, res |-> Built(path)]

\* NewTmpfsVolume, lines 38-40: a zero size is refused before anything is
\* mounted.
NewTmpfsVolume(size) ==
    IF IsZero(size) THEN Returns(TerminalError("zeroTmpfs"))
    ELSE GoesOn("tool", tmpfsPath)

\* NewPDVolume, lines 26-28: Pending without a disk name.
NewPDVolume(diskName) ==
    IF diskName = NoDisk THEN Returns(PendingError("emptyDisk"))
    ELSE GoesOn("stat", pdPath)

\* createCacheVolume, lines 207-241: the poll for the map (map.exists and
\* getOk: a Get succeeded within the minute), the parse (an error is
\* returned; a panic takes the process down), the node's entry, and the
\* constructor the entry's kind selects.
createCacheVolume(map, nodeName, getOk) ==
    IF ~getOk \/ ~map.exists THEN Returns(PendingError("pollTimeout"))
    ELSE IF map.bad /\ map.panics THEN [pc |-> "panic", res |-> NoResult]
    ELSE IF map.bad THEN Returns(TerminalError("malformed"))
    ELSE IF nodeName \notin DOMAIN map.data THEN Returns(PendingError("nodeAbsent"))
    ELSE LET info == map.data[nodeName] IN
         CASE info.VolumeType = "tmpfs" -> NewTmpfsVolume(info.Size)
           [] info.VolumeType = "lssd" -> GoesOn("raid", lssdPath)
           [] info.VolumeType = "pd" -> NewPDVolume(info.Disk)
           [] OTHER -> Returns(TerminalError("unknownKind"))

\* NewPDVolume, lines 30-34: os.Stat of the device path; Pending without it.
NewPDVolume_Stat(device) ==
    IF ~device THEN Returns(PendingError("deviceAbsent"))
    ELSE GoesOn("scan", pdPath)

\* NewLocalSSDVolume, lines 28-32: an error of getLocalSSDs is returned,
\* else the array is made of the devices listed.
NewLocalSSDVolume(readOk) ==
    IF ~readOk THEN Returns(TerminalError("localSSDs"))
    ELSE GoesOn("init", lssdPath)

\* NewLocalSSDVolume, lines 33-36: an error of the array's Init is returned,
\* else the array is mounted as a device.
NewLocalSSDVolume_Array(initErr) ==
    IF initErr THEN Returns(TerminalError("raidInit"))
    ELSE GoesOn("scan", lssdPath)

\* NewFromDevice, lines 55-70: an existing mount of the path is returned
\* when it is of the device and refused otherwise.
NewFromDevice(table, mountPath) ==
    IF table = "other" THEN Returns(TerminalError("mountMismatch"))
    ELSE IF table = "own" THEN Returns(Built(mountPath))
    ELSE GoesOn("tool", mountPath)

\* NewFromDevice, lines 72-86: the device is formatted and mounted; mount
\* refuses a device that is mounted on the path already.
FormatAndMount(table, mountPath, toolOk) ==
    IF ~toolOk \/ table = "own" THEN TerminalError("formatAndMount")
    ELSE Built(mountPath)

\* NewTmpfsVolume, lines 42-61: the tmpfs is mounted on the path.
MountTmpfs(toolOk) ==
    IF ~toolOk THEN TerminalError("tmpfsMount") ELSE Built(tmpfsPath)

\* What a block device holds: one file system, whoever mounts it.
DeviceContents == 1

\* NewTmpfsVolume, line 55: every call mounts a tmpfs of its own on the path.
TmpfsContents_Reused(made) == IF made = 0 THEN 1 ELSE made

TmpfsContents(made) == made + 1

\* What the local mount path shows once a constructor has returned path.
LocalContents(path, made) ==
    IF path = tmpfsPath THEN TmpfsContents(made) ELSE DeviceContents

\* mount.IsLikelyNotMountPoint of a target that exists.
IsLikelyNotMountPoint_Always(view, target) == TRUE

IsLikelyNotMountPoint(view, target) == view[target] = <<>>

\* Publish calls under way for the target.
UnderWay(rpc, target) ==
    {j \in Rpcs : rpc[j].pc \notin {"new", "done"} /\ rpc[j].target = target}

\* NodePublishVolume, lines 566-571: the status a failed construction gets.
ConstructionCode(res) == IF IsPending(res) THEN "Aborted" ELSE "Internal"

\* What `d.vol, err = createCacheVolume(...)` leaves in d.vol.
AssignedVol_Sticky(res) == IF IsPending(res) THEN "pending" ELSE res.path

AssignedVol(res) == res.path

Finished(r, code, cause) ==
    [r EXCEPT !.pc = "done", !.code = code, !.cause = cause, !.res = NoResult]

\* Everything but the configuration object, the agent and the array manager.
lssdFrame == <<codec, pdStorageClass, labelsOf, nodes, budget, mayTerminate, pvcs,
               pvcRV, pvs, nextVol, cmCache, nodeQ, claimQ, nw, cw,
               attachReqs, everBound>>

\* Everything but the configuration object and the agent.
agentFrame == <<raid, lssdFrame>>

\* NodePublishVolume, lines 560-564: a publish call arrives; a missing target
\* is refused, else the call looks at d.vol.
NodePublishVolume_Enter(i, target) ==
    /\ ~agent.down /\ agent.rpc[i].pc = "new"
    /\ i > 1 => agent.rpc[i - 1].pc # "new"
    /\ agent' = [agent EXCEPT
          !.rpc[i] =
             IF target = "" THEN Finished(@, "InvalidArgument", "noTarget")
             ELSE IF agent.vol = "nil"
             THEN [@ EXCEPT !.pc = "create", !.target = target, !.sawNil = TRUE]
             ELSE [@ EXCEPT !.pc = "mount", !.target = target],
          !.contended = IF target # "" /\ UnderWay(agent.rpc, target) # {}
                        THEN @ \cup {target} ELSE @]
    /\ UNCHANGED <<cm, agentFrame>>

\* createCacheVolume, lines 207-241: the map is polled and read, and the
\* constructor is entered.
createCacheVolume_Poll(i, getOk) ==
    /\ ~agent.down /\ agent.rpc[i].pc = "create"
    /\ LET to == createCacheVolume(cm, AgentNode, getOk)
       IN agent' = IF to.pc = "panic"
                   THEN [agent EXCEPT
                           !.rpc[i] = Finished(agent.rpc[i], "Panic", "malformed"),
                           !.down = TRUE]
                   ELSE [agent EXCEPT !.rpc[i].pc = to.pc, !.rpc[i].res = to.res]
    /\ UNCHANGED <<cm, agentFrame>>

\* NewPDVolume, lines 30-34: the look at the device path.
NewPDVolume_StatDevice(i) ==
    /\ ~agent.down /\ agent.rpc[i].pc = "stat"
    /\ LET to == NewPDVolume_Stat(agent.device)
       IN agent' = [agent EXCEPT !.rpc[i].pc = to.pc, !.rpc[i].res = to.res,
                                 !.rpc[i].ready = agent.device]
    /\ UNCHANGED <<cm, agentFrame>>

\* NewLocalSSDVolume, lines 28-32: the local SSDs are listed.
NewLocalSSDVolume_getLocalSSDs(i, readOk) ==
    /\ ~agent.down /\ agent.rpc[i].pc = "raid"
    /\ LET to == NewLocalSSDVolume(readOk)
       IN agent' = [agent EXCEPT !.rpc[i].pc = to.pc, !.rpc[i].res = to.res]
    /\ UNCHANGED <<cm, agentFrame>>

\* NewFromDevice, lines 55-70: the mount table is read.
NewFromDevice_Scan(i) ==
    /\ ~agent.down /\ agent.rpc[i].pc = "scan"
    /\ LET to == NewFromDevice(agent.table, agent.rpc[i].res.path)
       IN agent' = [agent EXCEPT
             !.rpc[i].pc = to.pc, !.rpc[i].res = to.res,
             !.built = IF to.pc = "assign" /\ to.res.kind = "" THEN @ + 1 ELSE @,
             !.top = IF to.pc = "assign" /\ to.res.kind = ""
                     THEN DeviceContents ELSE @]
    /\ UNCHANGED <<cm, agentFrame>>

\* NewFromDevice, lines 72-86, and NewTmpfsVolume, lines 42-61: the mount
\* point is made and the external mount runs.
NewVolume_Mount(i, toolOk) ==
    /\ ~agent.down /\ agent.rpc[i].pc = "tool"
    /\ LET path == agent.rpc[i].res.path
           res == IF path = tmpfsPath THEN MountTmpfs(toolOk)
                  ELSE FormatAndMount(agent.table, path, toolOk)
           ok == res.kind = ""
       IN agent' = [agent EXCEPT
             !.rpc[i].pc = "assign", !.rpc[i].res = res,
             !.rpc[i].ran = TRUE,
             !.rpc[i].late = agent.rpc[i].late \/ agent.built > 0,
             !.table = IF ok /\ path # tmpfsPath THEN "own" ELSE @,
             !.built = IF ok THEN @ + 1 ELSE @,
             !.top = IF ok THEN LocalContents(path, agent.made) ELSE @,
             !.made = IF ok /\ path = tmpfsPath THEN TmpfsContents(@) ELSE @]
    /\ UNCHANGED <<cm, agentFrame>>

\* NodePublishVolume, lines 566-572: d.vol takes what createCacheVolume
\* returned, with no lock held, and an error ends the call.
NodePublishVolume_Create(i) ==
    /\ ~agent.down /\ agent.rpc[i].pc = "assign"
    /\ LET r == agent.rpc[i]
           res == r.res
       IN agent' = [agent EXCEPT
             !.vol = AssignedVol(res),
             !.rpc[i] = IF res.kind = "" THEN [r EXCEPT !.pc = "mount", !.res = NoResult]
                        ELSE Finished(r, ConstructionCode(res), res.cause)]
    /\ UNCHANGED <<cm, agentFrame>>

\* What the look at the target path may come to.
MountOutcomes == {"ok", "badState", "mkdirFailed"}

\* NodePublishVolume, lines 574-589: the target path is inspected; a target
\* that is a mount point already ends the call in success.
NodePublishVolume_Inspect(i, outcome) ==
    /\ ~agent.down /\ agent.rpc[i].pc = "mount"
    /\ outcome = "mkdirFailed" => agent.rpc[i].target \notin agent.mounts
    /\ LET r == agent.rpc[i] IN
       agent' =
          IF outcome = "badState"
          THEN [agent EXCEPT !.rpc[i] = Finished(r, "Internal", "targetBadState")]
          ELSE IF outcome = "mkdirFailed"
          THEN [agent EXCEPT !.rpc[i] = Finished(r, "Internal", "targetMkdir")]
          ELSE IF ~IsLikelyNotMountPoint(agent.view, r.target)
          THEN [agent EXCEPT !.rpc[i] = Finished(r, "OK", "")]
          ELSE [agent EXCEPT !.rpc[i].pc = "bind"]
    /\ UNCHANGED <<cm, agentFrame>>

\* NodePublishVolume, line 600: d.vol.Path() is evaluated for the mount
\* command; a nil d.vol panics and the process dies.
NodePublishVolume_Path(i) ==
    /\ ~agent.down /\ agent.rpc[i].pc = "bind"
    /\ LET r == agent.rpc[i] IN
       agent' =
          IF agent.vol = "nil"
          THEN [agent EXCEPT !.rpc[i] = Finished(r, "Panic", "nilVolume"),
                             !.down = TRUE]
          ELSE [agent EXCEPT !.rpc[i].pc = "binding"]
    /\ UNCHANGED <<cm, agentFrame>>

\* NodePublishVolume, lines 600-602: the path is bind-mounted onto the
\* target; the target then shows what the path shows now.
NodePublishVolume_Mount(i, mountOk) ==
    /\ ~agent.down /\ agent.rpc[i].pc = "binding"
    /\ LET r == agent.rpc[i] IN
       agent' =
          IF ~mountOk
          THEN [agent EXCEPT !.rpc[i] = Finished(r, "Unknown", "bindMount")]
          ELSE [agent EXCEPT !.rpc[i].pc = "log",
                             !.mounts = @ \cup {r.target},
                             !.view[r.target] =
                                <<[gen |-> agent.top, by |-> agent.epoch]>> \o @]
    /\ UNCHANGED <<cm, agentFrame>>

\* NodePublishVolume, lines 603-605: d.vol.Path() is evaluated again for the
\* log line, after the mount; a nil d.vol panics, else the call succeeds.
NodePublishVolume_Log(i) ==
    /\ ~agent.down /\ agent.rpc[i].pc = "log"
    /\ LET r == agent.rpc[i] IN
       agent' =
          IF agent.vol = "nil"
          THEN [agent EXCEPT !.rpc[i] = Finished(r, "Panic", "nilVolume"),
                             !.down = TRUE]
          ELSE [agent EXCEPT !.rpc[i] = Finished(r, "OK", "")]
    /\ UNCHANGED <<cm, agentFrame>>

\* NodeUnpublishVolume: a missing target is refused, else the target is
\* unmounted: the mount on top of it goes, and a target with nothing
\* mounted on it is left as it is.  Only a failing umount is an error.
NodeUnpublishVolume(target, toolOk) ==
    /\ ~agent.down
    /\ LET code == IF target = "" THEN "InvalidArgument"
                   ELSE IF ~toolOk THEN "Internal"
                   ELSE "OK"
       IN agent' =
             IF code # "OK" \/ agent.view[target] = <<>>
             THEN [agent EXCEPT !.unpublished = code]
             ELSE [agent EXCEPT
                     !.unpublished = code,
                     !.view[target] = Tail(@),
                     !.mounts = IF Len(agent.view[target]) = 1
                                THEN @ \ {target} ELSE @,
                     !.gone = IF agent.view[target][1].by = agent.epoch
                              THEN @ \cup {agent.view[target][1].gen} ELSE @]
    /\ UNCHANGED <<cm, agentFrame>>

\* The agent's pod is replaced: a new process with no local volume and no
\* call under way.  The bind mounts on the targets stay (the pods directory
\* is shared with the host); the local mount paths are the container's own
\* and start with nothing mounted on them.
AgentRestart ==
    /\ agent.epoch < MaxRestarts
    /\ agent' = [agent EXCEPT !.vol = "nil", !.rpc = [i \in Rpcs |-> NoRpc],
                              !.built = 0, !.down = FALSE, !.unpublished = "",
                              !.table = "none", !.top = 0,
                              !.epoch = @ + 1, !.oldMade = agent.made,
                              !.gone = {}]
    /\ UNCHANGED <<cm, agentFrame>>

\* The reconciler's writes and the node's devices, as the agent meets them:
\* each action is one write of the reconciler's as the API server takes it.
\* A write of the configuration object that is taken was worked out from
\* the stored object (an update carries the version it read, a create meets
\* no object), and from the claim as the cache had it since.
\* updatePVCForLifecycle, lines 272-274, in Reconcile of node n, lines
\* 164-202: the claim of a pd node that has none is created.  A map the
\* parse panics on ends the reconcile before; a node without the kind
\* label, with a size that is no quantity, without a storage class or
\* without a size has no claim made.
ClaimWritten(n) ==
    LET got == LabelsRead[labelsOf[n]]
    IN /\ NodeLive(n)
       /\ ~(cm.exists /\ cm.bad /\ cm.panics)
       /\ got.err = "" /\ got.info.VolumeType = pdVolumeType
       /\ pdStorageClass # "" /\ ~IsZero(got.info.Size)
       /\ ~pvcs[n].exists
       /\ pvcs' = [pvcs EXCEPT ![n] = NewClaim(got.info.Size)]
       /\ pvcRV' = [pvcRV EXCEPT ![n] = @ + 1]
       /\ UNCHANGED <<cm, agent, raid, codec, pdStorageClass, labelsOf, nodes, budget,
                      mayTerminate, pvs, nextVol, cmCache, nodeQ, claimQ, nw, cw,
                      attachReqs, everBound>>

\* Reconcile of node n, lines 204-219: the node's entry is put and the map
\* is created or updated.  A map that is absent or fails to parse counts as
\* empty, and one the parse panics on ends the reconcile with nothing
\* written; a node without the kind label, with a size that is no quantity,
\* or a pd node without a storage class, a size or a claim, leaves the
\* stored map as it is.  The entry names the claim's volume when the
\* reconcile read the claim bound (bound); the claim of an entry that names
\* a disk was bound before the version of the map the update is for.  An
\* update that changes nothing stores nothing.
ReconcileWrites(n, bound) ==
    LET got == LabelsRead[labelsOf[n]]
        mapping == IF cm.exists /\ ~cm.bad THEN cm.data ELSE EmptyMapping
        info == [got.info EXCEPT !.Disk = IF bound THEN pvcs[n].volumeName ELSE NoDisk]
        data == MapPut(mapping, n, info)
    IN /\ NodeLive(n)
       /\ ~(cm.exists /\ cm.bad /\ cm.panics)
       /\ got.err = ""
       /\ got.info.VolumeType = pdVolumeType =>
             pdStorageClass # "" /\ ~IsZero(got.info.Size) /\ pvcs[n].exists
       /\ bound => got.info.VolumeType = pdVolumeType /\ pvcs[n].bound
       /\ (n \in DOMAIN cm.data /\ cm.data[n].Disk # NoDisk) => bound
       /\ ~cm.exists \/ cm.bad \/ data # cm.data
       /\ cm' = [exists |-> TRUE, rv |-> IF cm.exists THEN cm.rv + 1 ELSE 1,
                 bad |-> FALSE, panics |-> FALSE, data |-> data]
       /\ UNCHANGED <<agent, agentFrame>>

\* Another node's reconcile creates the configuration object.
MapCreated == ~cm.exists /\ ReconcileWrites(OtherNode, FALSE)

\* Reconcile for the agent's node.
EntryWritten == \E bound \in BOOLEAN : ReconcileWrites(AgentNode, bound)

\* pvcReconciler.Reconcile, lines 323-333, for the claim of the agent's
\* node: the entry of a bound claim that does not name the claim's volume is
\* made to, and the map updated.  A map that does not parse is an error and
\* nothing is written; the claim of a node that is gone is deleted instead.
DiskWritten ==
    /\ cm.exists /\ ~cm.bad /\ AgentNode \in DOMAIN cm.data
    /\ pvcs[AgentNode].exists /\ NodeLive(AgentNode)
    /\ pvcs[AgentNode].bound
    /\ cm.data[AgentNode].Disk # pvcs[AgentNode].volumeName
    /\ cm' = [cm EXCEPT !.rv = @ + 1,
                        !.data[AgentNode].Disk = pvcs[AgentNode].volumeName]
    /\ UNCHANGED <<agent, agentFrame>>

\* pvcReconciler.Reconcile, lines 291-353: attachDisk has attached the
\* volume of the node's bound claim; its device path appears on the node.
\* The reconcile of a claim that the map has no entry for, or whose map
\* does not parse, ends in an error before.
DeviceAttached ==
    /\ ~agent.device
    /\ cm.exists /\ ~cm.bad /\ AgentNode \in DOMAIN cm.data
    /\ pvcs[AgentNode].exists /\ pvcs[AgentNode].bound /\ NodeLive(AgentNode)
    /\ agent' = [agent EXCEPT !.device = TRUE]
    /\ pvs' = [pvs EXCEPT ![pvcs[AgentNode].volumeName].attachedTo = AgentNode]
    /\ UNCHANGED <<cm, raid, codec, pdStorageClass, labelsOf, nodes, budget, mayTerminate,
                   pvcs, pvcRV, nextVol, cmCache, nodeQ, claimQ, nw, cw, attachReqs,
                   everBound>>

\* The stored text is edited into a malformed one: one that
\* getVolumeTypeMapping returns an error for (a line "a", an unknown key),
\* or one that it panics on (a line "a,type").
MapCorrupted ==
    /\ cm.exists /\ ~cm.bad
    /\ \E panics \in BOOLEAN :
          cm' = [cm EXCEPT !.rv = @ + 1, !.bad = TRUE, !.panics = panics]
    /\ UNCHANGED <<agent, agentFrame>>

\* The edits by hand are few.
EditMap == cm.rv < MaxMapVersion /\ MapCorrupted

\* Something else is mounted at the local mount path.
ForeignMount ==
    /\ agent.table = "none"
    /\ agent' = [agent EXCEPT !.table = "other"]
    /\ UNCHANGED <<cm, agentFrame>>

\* ------------------------------------------------------ specifications

\* No volume of the cache, no configuration object, nothing queued, the
\* workers at rest.
CtlStart ==
    /\ pvs = [v \in Volumes |-> NoPv]
    /\ cm = NoCm
    /\ cmCache = NoCm
    /\ nodeQ = {}
    /\ claimQ = {}
    /\ nw = NWIdle
    /\ cw = CWIdle
    /\ attachReqs = {}
    /\ everBound = {}

CtlInit ==
    /\ nodes = [n \in Nodes |-> NoNodeObj]
    /\ CtlStart

\* The clusters explored.  Each names the labels nodes of a name carry, how
\* often a node of that name joins, whether nodes linger deletion-marked, and
\* how many volumes the provisioner's quota still allows.
\* Recreate: one pd node that leaves and joins again, in a project with room
\* for one more disk.
ScRecreate ==
    [labels |-> [n \in Nodes |-> PdLabels],
     budget |-> [n \in Nodes |-> IF n = "a" THEN MaxIncarnations ELSE 0],
     mayTerminate |-> FALSE, adopted |-> {}, quota |-> 1]
\* Pair: a pd node and a tmpfs node join once each.
ScPair ==
    [labels |-> [n \in Nodes |-> IF n = "a" THEN PdLabels ELSE TmpfsLabels],
     budget |-> [n \in Nodes |-> 1],
     mayTerminate |-> FALSE, adopted |-> {}, quota |-> MaxVolumes]
\* Terminate: one pd node that joins once and is deletion-marked before it
\* goes.
ScTerminate ==
    [labels |-> [n \in Nodes |-> PdLabels],
     budget |-> [n \in Nodes |-> IF n = "a" THEN 1 ELSE 0],
     mayTerminate |-> TRUE, adopted |-> {}, quota |-> MaxVolumes]
\* Adopt: one pd node whose claim is already there, made before the
\* reconciler ran and so without the retention finalizer.
ScAdopt ==
    [labels |-> [n \in Nodes |-> PdLabels],
     budget |-> [n \in Nodes |-> IF n = "a" THEN 1 ELSE 0],
     mayTerminate |-> FALSE, adopted |-> {"a"}, quota |-> MaxVolumes]

\* Some: a tmpfs node and a node without the cache-kind label (TestSomeNodes).
ScSome ==
    [labels |-> [n \in Nodes |-> IF n = "a" THEN TmpfsLabels
                                 ELSE [kind |-> NoLabel, size |-> NoSizeLabel]],
     budget |-> [n \in Nodes |-> MaxIncarnations],
     mayTerminate |-> FALSE, adopted |-> {}, quota |-> MaxVolumes]

Scenarios == {ScRecreate, ScTerminate, ScAdopt, ScSome}

\* A claim made like NewClaim, but not by the reconciler.
ForeignClaim(size) ==
    [NewClaim(size) EXCEPT !.finalizers = <<pvcProtection>>, !.cached = TRUE]

ClusterLabels(scs) ==
    /\ pdStorageClass = StorageClassName
    /\ \E sc \in scs :
          /\ labelsOf = sc.labels
          /\ budget = sc.budget
          /\ mayTerminate = sc.mayTerminate
          /\ pvcs = [n \in Nodes |-> IF n \in sc.adopted
                                     THEN ForeignClaim(MustParse(sc.labels[n].size.text))
                                     ELSE NoPvc]
          /\ pvcRV = [n \in Nodes |-> IF n \in sc.adopted THEN 1 ELSE 0]
          /\ nextVol = MaxVolumes - sc.quota

ClusterInit(scs) ==
    /\ ClusterLabels(scs)
    /\ CtlInit
    /\ agent = NoAgent

\* A cluster whose nodes have joined, each with its labels.
JoinedInit(scs) ==
    /\ ClusterLabels(scs)
    /\ nodes = [n \in Nodes |-> [exists |-> TRUE, deleting |-> FALSE,
                                  kind |-> labelsOf[n].kind,
                                  size |-> labelsOf[n].size]]
    /\ CtlStart
    /\ agent = NoAgent

InitIn(scs) == ClusterInit(scs) /\ codec = NoCodec /\ raid = NoRaid

Init == InitIn(Scenarios)

EnvNext ==
    \/ \E n \in Nodes : CreateNode(n)
    \/ \E n \in Nodes : DeleteNode(n)
    \/ \E n \in Nodes : TerminateNode(n)
    \/ \E n \in Nodes : UpdateNode(n)
    \/ \E n \in Nodes : BindClaim(n)
    \/ \E n \in Nodes : ReleaseProtection(n)
    \/ \E n \in Nodes : ClaimCacheSync(n)
    \/ CacheSync

\* The node loop; answers: whether the reads through the manager's client
\* may fail (BOOLEAN) or all return what the cache holds ({TRUE}).
NodeLoopIn(answers) ==
    \/ \E k \in Nodes, getOk \in answers : Reconcile_GetNode(k, getOk)
    \/ \E getOk \in answers : Reconcile_GetConfigMap(getOk)
    \/ \E getOk \in answers : updatePdVolumeType_Get(getOk)
    \/ updatePVCForLifecycle_Create
    \/ updatePVCForLifecycle_Update
    \/ Reconcile_WriteMapping
    \/ \E listOk \in answers : deleteOrphanedPDs_ListClaims(listOk)
    \/ \E listOk \in answers : deleteOrphanedPDs_ListNodes(listOk)
    \/ deleteOrphanedPDs_Delete
    \/ deleteOrphanedPDs_Strip

NodeLoopNext == NodeLoopIn(BOOLEAN)

ClaimLoopNext ==
    \/ \E k \in Nodes : pvcReconcile_GetConfigMap(k)
    \/ pvcReconcile_GetPVC
    \/ pvcReconcile_GetNode
    \/ pvcReconcile_UpdateMapping
    \/ pvcReconcile_GetPV
    \/ diskIsAttached_GetNode
    \/ \E callOk \in BOOLEAN : pvcReconcile_IsAttached(callOk)
    \/ \E callOk \in BOOLEAN : pvcReconcile_Attach(callOk)
    \/ \E answer \in PollAnswers : attachDisk_Poll(answer)
    \/ \E v \in Volumes, ok \in BOOLEAN : AttachCompletes(v, ok)
    \/ pvcReconcile_Delete
    \/ pvcReconcile_Strip

Next == EnvNext \/ NodeLoopNext \/ ClaimLoopNext

Spec == Init /\ [][Next]_vars

\* The clusters in which one cache node joins once.
SpecOnce == InitIn({ScTerminate, ScAdopt, ScSome}) /\ [][Next]_vars

\* The agent and what it meets.  On the agent's node: a pd cache with and
\* without a size, a tmpfs cache with and without a size, a local-SSD cache,
\* a kind nobody knows, and no cache at all.
AgentLabels ==
    {PdLabels, TmpfsLabels, [kind |-> "tmpfs", size |-> NoSizeLabel],
     [kind |-> "lssd", size |-> NoSizeLabel],
     [kind |-> "floppy", size |-> SizeLabel(<<"1">>)],
     [kind |-> pdVolumeType, size |-> NoSizeLabel],
     [kind |-> NoLabel, size |-> SizeLabel(<<"1">>)]}

AgentScenarios ==
    {[labels |-> [n \in Nodes |-> IF n = AgentNode THEN l ELSE TmpfsLabels],
      budget |-> [n \in Nodes |-> 0],
      mayTerminate |-> FALSE, adopted |-> {}, quota |-> MaxVolumes] : l \in AgentLabels}

AgentEnv ==
    \/ MapCreated
    \/ ClaimWritten(AgentNode)
    \/ BindClaim(AgentNode)
    \/ EntryWritten
    \/ DiskWritten
    \/ DeviceAttached
    \/ EditMap
    \/ ForeignMount

AgentRpcNext ==
    \/ \E i \in Rpcs, target \in Targets : NodePublishVolume_Enter(i, target)
    \/ \E i \in Rpcs, getOk \in BOOLEAN : createCacheVolume_Poll(i, getOk)
    \/ \E i \in Rpcs : NewPDVolume_StatDevice(i)
    \/ \E i \in Rpcs : NewFromDevice_Scan(i)
    \/ \E i \in Rpcs, toolOk \in BOOLEAN : NewVolume_Mount(i, toolOk)
    \/ \E i \in Rpcs : NodePublishVolume_Create(i)
    \/ \E i \in Rpcs, outcome \in MountOutcomes : NodePublishVolume_Inspect(i, outcome)
    \/ \E i \in Rpcs : NodePublishVolume_Path(i)
    \/ \E i \in Rpcs, mountOk \in BOOLEAN : NodePublishVolume_Mount(i, mountOk)
    \/ \E i \in Rpcs : NodePublishVolume_Log(i)

\* The agent's mounts over a restart: a tmpfs cache and a pd cache, the
\* reconciler's writes arriving as they do.
MountScenarios ==
    {[labels |-> [n \in Nodes |-> IF n = AgentNode THEN l ELSE TmpfsLabels],
      budget |-> [n \in Nodes |-> 0],
      mayTerminate |-> FALSE, adopted |-> {}, quota |-> MaxVolumes] : l \in {TmpfsLabels, PdLabels}}

MountEnv ==
    \/ ClaimWritten(AgentNode)
    \/ BindClaim(AgentNode)
    \/ EntryWritten
    \/ DiskWritten
    \/ DeviceAttached
    \/ AgentRestart

\* The unpublish calls: of any target, the umount failing or not.
UnpublishNext ==
    \E target \in Targets, toolOk \in BOOLEAN : NodeUnpublishVolume(target, toolOk)

MountNext == MountEnv \/ AgentRpcNext \/ UnpublishNext

InitMount == JoinedInit(MountScenarios) /\ codec = NoCodec /\ raid = NoRaid

SpecMount == InitMount /\ [][MountNext]_vars

\* All sequences over S of at most k elements.
RECURSIVE SeqsUpTo(_, _)
SeqsUpTo(S, k) ==
    IF k = 0 THEN {<<>>}
    ELSE SeqsUpTo(S, k - 1) \cup
         {Append(q, x) : q \in {r \in SeqsUpTo(S, k - 1) : Len(r) = k - 1}, x \in S}

\* The texts parsed: node fields and key=value items as TestGetVolumeTypeMapping
\* has them (a tab, spaces and a carriage return around tokens, a trailing
\* comma, an unknown key, sizes that are and are not quantities), and a key
\* without "=".
NodeTexts == {<<"a">>, <<"b">>, <<" ", "a", " ">>}

ItemTexts ==
    {KeyType \o <<"=">> \o <<"p", "d">>,
     <<"\t">> \o KeyType \o <<" ", "=", " ">> \o <<"f", "o", "o">> \o <<"\r">>,
     KeySize \o <<"=">> \o <<"1", "0", "M", "i">>,
     KeySize \o <<"=">> \o <<"x">>,
     <<"u">> \o <<"=">> \o <<"y">>,
     <<>>,
     KeyType}

LineTexts ==
    {<<>>, <<" ">>} \cup
    {Join(<<n>> \o items, ",") : n \in NodeTexts, items \in SeqsUpTo(ItemTexts, MaxItems)}

MapTexts(maxLines) ==
    {Join(lines, "\n") : lines \in SeqsUpTo(LineTexts, maxLines) \ {<<>>}}

\* The maps written: kinds, sizes and disks of all shapes.
MapNodes == {<<"a">>, <<"a", "b">>, <<"b">>}

\* The sizes written are those ParseQuantity makes of a text, as the
\* program's are (of a node's label or of the map read).  For each: the
\* text String() is to print, and the Format the quantity read back from
\* that print is to have.
SizeTexts ==
    {[text |-> <<"1", ".", "5">>, written |-> <<"1", "5", "0", "0", "m">>,
      back |-> DecimalSI],
     [text |-> <<"1", "0", "M", "i">>, written |-> <<"1", "0", "M", "i">>,
      back |-> BinarySI],
     [text |-> <<"0", ".", "5", "K", "i">>, written |-> <<"5", "1", "2">>,
      back |-> DecimalSI],
     [text |-> <<"1", "E", "3">>, written |-> <<"1", "E", "3">>,
      back |-> DecimalExponent],
     [text |-> <<"1", "5", "e", "2">>, written |-> <<"1", "5", "0", "0">>,
      back |-> DecimalSI]}

\* The table with the size ParseQuantity makes of each text.
SizeRows ==
    {[size |-> MustParse(row.text), written |-> row.written, back |-> row.back] :
        row \in SizeTexts}

Infos ==
    {Info(<<"p", "d">>, sz, d) :
        sz \in {Zero, MustParse(<<"1", ".", "5">>), MustParse(<<"0", ".", "5", "K", "i">>),
                MustParse(<<"1", "E", "3">>)},
        d \in {<<>>, <<"d">>}}
    \cup {Info(<<"f", "o", "o">>, MustParse(<<"0">>), <<>>),
          Info(<<"f", "o", "o">>, MustParse(<<"1", "0", "M", "i">>), <<"d">>),
          Info(<<"f", "o", "o">>, MustParse(<<"1", "5", "e", "2">>), <<>>)}

TypeMaps(names) == UNION {[D -> Infos] : D \in SUBSET names}

\* The size labels a node may carry, with the quantity each is to mean
\* (the text the quantity keeps, if any, and the value and scale it is
\* held as): whole numbers, units, a fraction, an exponent, and texts that
\* are no quantity.
Quantity(digits, exp, format, s, value, scale) ==
    [neg |-> FALSE, digits |-> digits, exp |-> exp, Format |-> format, s |-> s,
     value |-> value, scale |-> scale]

SizeLabels ==
    {[text |-> <<"1">>, ok |-> TRUE, quantity |-> Quantity(<<"1">>, 0, DecimalSI, <<"1">>, <<"1">>, 0)],
     [text |-> <<"1", "0", "0", "0", "m">>, ok |-> TRUE,
      quantity |-> Quantity(<<"1">>, 0, DecimalSI, <<>>,
                            <<"1", "0", "0", "0">>, 0 - 3)],
     [text |-> <<"5", "0", "G", "i">>, ok |-> TRUE,
      quantity |-> Quantity(<<"5", "3", "6", "8", "7", "0", "9", "1", "2">>, 2, BinarySI,
                            <<"5", "0", "G", "i">>,
                            <<"5", "3", "6", "8", "7", "0", "9", "1", "2", "0", "0">>, 0)],
     [text |-> <<"1", "0", "2", "4", "K", "i">>, ok |-> TRUE,
      quantity |-> Quantity(<<"1", "0", "4", "8", "5", "7", "6">>, 0, BinarySI, <<>>,
                            <<"1", "0", "4", "8", "5", "7", "6">>, 0)],
     [text |-> <<"1", ".", "5", "G", "i">>, ok |-> TRUE,
      quantity |-> Quantity(<<"1", "6", "1", "0", "6", "1", "2", "7", "3", "6">>, 0,
                            BinarySI, <<>>,
                            <<"1", "6", "1", "0", "6", "1", "2", "7", "3", "6">>
                                \o Zeros(9), 0 - 9)],
     [text |-> <<"1", "e", "3">>, ok |-> TRUE,
      quantity |-> Quantity(<<"1">>, 3, DecimalExponent, <<"1", "e", "3">>, <<"1">>, 3)],
     [text |-> <<"1", "E", "3">>, ok |-> TRUE,
      quantity |-> Quantity(<<"1">>, 3, DecimalExponent, <<"1", "E", "3">>, <<"1">>, 3)],
     [text |-> <<"1", "E">>, ok |-> TRUE,
      quantity |-> Quantity(<<"1">>, 18, DecimalSI, <<"1", "E">>, <<"1">>, 18)],
     [text |-> <<"0">>, ok |-> TRUE, quantity |-> Quantity(<<>>, 0, DecimalSI, <<"0">>, <<>>, 0)],
     [text |-> <<"x">>, ok |-> FALSE, quantity |-> Zero],
     [text |-> <<"1", "0", "x">>, ok |-> FALSE, quantity |-> Zero],
     [text |-> <<"1", "e">>, ok |-> FALSE, quantity |-> Zero],
     [text |-> <<"1", "K">>, ok |-> FALSE, quantity |-> Zero],
     [text |-> <<>>, ok |-> FALSE, quantity |-> Zero]}

NodeLabels ==
    {[kind |-> k, size |-> sz] :
        k \in {NoLabel, "", "tmpfs", pdVolumeType},
        sz \in {NoSizeLabel} \cup {SizeLabel(l.text) : l \in SizeLabels}}

CodecInputs(maxLines) ==
    {[NoCodec EXCEPT !.op = "parse", !.data = d] :
        d \in {[k \in {volumeTypeInfoKey} |-> t] : t \in MapTexts(maxLines)}
              \cup {<<>>, [k \in {"other"} |-> <<>>]}}
    \cup UNION {{[NoCodec EXCEPT !.op = "write", !.typeMap = m, !.order = o] :
                   o \in Orders(DOMAIN m)} : m \in TypeMaps(MapNodes)}
    \cup {[NoCodec EXCEPT !.op = "node", !.labels = l] : l \in NodeLabels}

codecFrame == <<ctlVars, agent, raid>>

\* getVolumeTypeMapping is called: on the data given, or on the data written.
Call_getVolumeTypeMapping ==
    /\ \/ codec.op = "parse" /\ codec.stage = "in"
       \/ codec.op = "write" /\ codec.stage = "written"
    /\ codec' = [codec EXCEPT
          !.stage = "done",
          !.out = getVolumeTypeMapping(IF codec.op = "parse" THEN codec.data
                                       ELSE codec.written)]
    /\ UNCHANGED codecFrame

\* writeVolumeTypeMapping is called.
Call_writeVolumeTypeMapping ==
    /\ codec.op = "write" /\ codec.stage = "in"
    /\ codec' = [codec EXCEPT
          !.stage = "written",
          !.written = writeVolumeTypeMapping(codec.data, codec.typeMap, codec.order)]
    /\ UNCHANGED codecFrame

\* getVolumeTypeFromNode is called.
Call_getVolumeTypeFromNode ==
    /\ codec.op = "node" /\ codec.stage = "in"
    /\ codec' = [codec EXCEPT !.stage = "done",
                              !.vti = getVolumeTypeFromNode(codec.labels)]
    /\ UNCHANGED codecFrame

CodecNext ==
    \/ Call_getVolumeTypeMapping
    \/ Call_writeVolumeTypeMapping
    \/ Call_getVolumeTypeFromNode

InitCodec == ClusterInit({ScSome}) /\ codec \in CodecInputs(MaxLines) /\ raid = NoRaid

SpecCodec == InitCodec /\ [][CodecNext]_vars

\* ------------------------------------------ the volume constructors' calls
\* strings.Contains(s, substr)
ContainsText(s, substr) ==
    \E i \in 0..(Len(s) - Len(substr)) : SubSeq(s, i + 1, i + Len(substr)) = substr

\* NewFromDevice, lines 59-71: the scan of /proc/mounts.  The first line
\* that has mountPath somewhere in it decides: the mount is the device's
\* own when the line has actualDevice somewhere in it, another's otherwise.
ScanMounts(mounts, actualDevice, mountPath) ==
    LET lines == Split(mounts, "\n")
        hits == SelectSeq(lines, LAMBDA line : ContainsText(line, mountPath))
    IN IF hits = <<>> THEN "none"
       ELSE IF ContainsText(hits[1], actualDevice) THEN "own"
       ELSE "other"

\* fsType
FsType == <<"e", "x", "t", "4">>

\* One line of /proc/mounts: source, target, file system type.
MountLine(source, target) == source \o <<" ">> \o target \o <<" ">> \o FsType

\* /proc/mounts: every line ends in a newline.
RECURSIVE MountTable(_)
MountTable(lines) ==
    IF lines = <<>> THEN <<>>
    ELSE Head(lines) \o <<"\n">> \o MountTable(Tail(lines))

\* The number of binary digits of a whole number.
RECURSIVE BitLen(_)
BitLen(d) ==
    IF TrimZeros(d) = <<>> THEN 0
    ELSE IF TrimZeros(DivMod(d, 1048576, 0).quo) # <<>>
    THEN 20 + BitLen(TrimZeros(DivMod(d, 1048576, 0).quo))
    ELSE IF TrimZeros(DivMod(d, 1024, 0).quo) # <<>>
    THEN 10 + BitLen(TrimZeros(DivMod(d, 1024, 0).quo))
    ELSE 1 + BitLen(TrimZeros(DivMod(d, 2, 0).quo))

\* d / 2^n, the fraction cut off
RECURSIVE Halved(_, _)
Halved(d, n) ==
    IF n = 0 \/ TrimZeros(d) = <<>> THEN TrimZeros(d)
    ELSE IF n >= 20 THEN Halved(TrimZeros(DivMod(d, 1048576, 0).quo), n - 20)
    ELSE IF n >= 10 THEN Halved(TrimZeros(DivMod(d, 1024, 0).quo), n - 10)
    ELSE Halved(TrimZeros(DivMod(d, 2, 0).quo), n - 1)

\* d * 2^n
RECURSIVE Doubled(_, _)
Doubled(d, n) ==
    IF n = 0 \/ d = <<>> THEN d
    ELSE IF n >= 20 THEN Doubled(MulAdd(d, 1048576, 0), n - 20)
    ELSE IF n >= 10 THEN Doubled(MulAdd(d, 1024, 0), n - 10)
    ELSE Doubled(MulAdd(d, 2, 0), n - 1)

\* a + b + carry for whole numbers
RECURSIVE Add(_, _, _)
Add(a, b, carry) ==
    IF carry = 0 /\ a = <<>> /\ b = <<>> THEN <<>>
    ELSE IF a = <<>> /\ b = <<>> THEN NumberText(carry)
    ELSE LET v == (IF a = <<>> THEN 0 ELSE DigitOf(a[Len(a)]))
                  + (IF b = <<>> THEN 0 ELSE DigitOf(b[Len(b)])) + carry
         IN Add(SubSeq(a, 1, Len(a) - 1), SubSeq(b, 1, Len(b) - 1), v \div 10)
            \o <<Digits[(v % 10) + 1]>>

\* The number that at most 8 digits write.
RECURSIVE Small(_)
Small(d) == IF d = <<>> THEN 0 ELSE Small(SubSeq(d, 1, Len(d) - 1)) * 10 + DigitOf(d[Len(d)])

\* a * b for whole numbers, b of 16 digits at most (as one below 2^53 is):
\* a times the digits of b before its last 8, and a times those 8.
Mul(a, b) ==
    LET low == SubSeq(b, Len(b) - 7, Len(b))
        high == SubSeq(b, 1, Len(b) - 8)
    IN IF Len(b) <= 8 THEN TrimZeros(MulAdd(a, Small(b), 0))
       ELSE TrimZeros(Add(MulAdd(a, Small(high), 0) \o Zeros(8),
                          MulAdd(a, Small(low), 0), 0))

\* d / 5^n, the fraction cut off
RECURSIVE Fifth(_, _)
Fifth(d, n) ==
    IF n = 0 \/ d = <<>> THEN TrimZeros(d)
    ELSE Fifth(TrimZeros(DivMod(d, 5, 0).quo), n - 1)

\* A float64, its sign apart: m * 2^e with m below 2^53 (zero has no
\* digits), or +Inf, or NaN.
Float64(m, e) == [m |-> m, e |-> e, class |-> "finite"]

Inf == [m |-> <<>>, e |-> 0, class |-> "inf"]

NaN == [m |-> <<>>, e |-> 0, class |-> "nan"]

\* The float64 nearest a number of bits binary digits (54 at least), ties
\* to the even one: bits54 is the number's first 54 binary digits, the last
\* of them the one that decides, and whether the digits after are all 0.
Nearest(bits54, bits) ==
    LET m == TrimZeros(DivMod(bits54.whole, 2, 0).quo)
        up == /\ DivMod(bits54.whole, 2, 0).rem = 1
              /\ ~bits54.exact \/ DivMod(m, 2, 0).rem = 1
    IN Float64(IF up THEN MulAdd(m, 1, 1) ELSE m, bits - 53)

\* The float64 of v * 2^e, v a whole number, or of a number between that
\* and (v + 1) * 2^e when more is given: the nearest, +Inf above the
\* largest float64.  More comes only with a v of 54 binary digits at least.
Round(v, more, e) ==
    LET bits == BitLen(v)
        cut == bits - 54
        near == Nearest([whole |-> Halved(v, cut),
                         exact |-> ~more /\ Doubled(Halved(v, cut), cut) = TrimZeros(v)],
                        bits)
    IN IF bits + e > 1024 THEN Inf
       ELSE IF bits <= 53 THEN Float64(TrimZeros(v), e)
       ELSE IF BitLen(near.m) + near.e + e > 1024 THEN Inf
       ELSE Float64(near.m, near.e + e)

\* a * b for float64
FloatMul(a, b) ==
    IF a.class = "nan" \/ b.class = "nan" THEN NaN
    ELSE IF a.class = "inf" \/ b.class = "inf"
    THEN IF (a.class = "finite" /\ a.m = <<>>) \/ (b.class = "finite" /\ b.m = <<>>)
         THEN NaN ELSE Inf
    ELSE Round(Mul(a.m, b.m), FALSE, a.e + b.e)

\* pow10postab32: the float64 of 1e00, 1e32, 1e64 and so on to 1e288.
Pow10postab32 ==
    <<Float64(<<"1">>, 0),
      Float64(<<"5", "5", "5", "1", "1", "1", "5", "1", "2", "3", "1", "2", "5", "7", "8", "3">>, 54),
      Float64(<<"6", "8", "4", "2", "2", "7", "7", "6", "5", "7", "8", "3", "6", "0", "2", "1">>, 160),
      Float64(<<"8", "4", "3", "3", "7", "5", "8", "3", "5", "4", "5", "8", "4", "4", "1", "9">>, 266),
      Float64(<<"5", "1", "9", "7", "7", "0", "4", "8", "8", "2", "8", "2", "2", "4", "5", "0">>, 373),
      Float64(<<"6", "4", "0", "6", "6", "6", "5", "9", "0", "4", "5", "8", "5", "9", "2", "3">>, 479),
      Float64(<<"7", "8", "9", "6", "8", "2", "5", "4", "1", "3", "9", "6", "9", "1", "3", "1">>, 585),
      Float64(<<"4", "8", "6", "6", "7", "9", "4", "4", "0", "9", "7", "1", "5", "6", "0", "9">>, 692),
      Float64(<<"5", "9", "9", "8", "7", "8", "7", "2", "5", "5", "5", "8", "2", "5", "2", "4">>, 798),
      Float64(<<"7", "3", "9", "4", "0", "7", "6", "1", "6", "3", "5", "4", "2", "3", "4", "2">>, 904)>>

\* pow10tab: the float64 of 1e00 to 1e31.
Pow10tab(n) == Round(<<"1">> \o Zeros(n), FALSE, 0)

\* math.Pow10(n).  From 0 to 308 it is pow10postab32[n/32] * pow10tab[n%32],
\* and +Inf above.  Below 0 it is pow10negtab32[-n/32] / pow10tab[-n%32]:
\* down to -22 that is 1 divided by a power of ten a float64 holds, so the
\* float64 of 2^n / 5^-n, taken here to 60 + 3 * -n binary digits before
\* the division.  (ParseQuantity holds a number that is not zero to no
\* scale below -9.)
Pow10(n) ==
    IF n > 308 THEN Inf
    ELSE IF n >= 0 THEN FloatMul(Pow10postab32[(n \div 32) + 1], Pow10tab(n % 32))
    ELSE Round(Fifth(Doubled(<<"1">>, 60 - 3 * n), 0 - n), TRUE, 4 * n - 60)

\* Quantity.AsApproximateFloat64(), the sign apart: the float64 of the
\* value held, returned as it is when the scale is 0 and multiplied by
\* math.Pow10(scale) when it is not.
AsApproximateFloat64(q) ==
    IF q.scale = 0 THEN Round(q.value, FALSE, 0)
    ELSE FloatMul(Round(q.value, FALSE, 0), Pow10(q.scale))

\* The whole part of f / 2^shift, a division that a float64 does without
\* rounding; 2^63 stands for that of +Inf and of any float of 2^64 and
\* more, which are all beyond int64's range.
Shifted(f, shift) ==
    IF f.class = "inf" \/ (f.m # <<>> /\ BitLen(f.m) + f.e - shift > 64)
    THEN MulAdd(MaxInt64, 1, 1)
    ELSE IF f.e >= shift THEN Doubled(f.m, f.e - shift)
    ELSE Halved(f.m, shift - f.e)

\* math.MinInt64, as %d prints it.
MinInt64Text == <<"-">> \o MulAdd(MaxInt64, 1, 1)

\* int64(f) of a float with whole part n, as %d prints it.  A float out of
\* int64's range converts as the platform has it: to math.MinInt64 on
\* amd64, to the nearest end of the range on arm64.
Int64Texts(neg, n) ==
    IF n = <<>> THEN {<<"0">>}
    ELSE IF ~NatLess(MaxInt64, n) THEN {(IF neg THEN <<"-">> ELSE <<>>) \o n}
    ELSE IF neg THEN {MinInt64Text}
    ELSE {MinInt64Text, MaxInt64}

\* int64(size.AsApproximateFloat64()/1024/1024), as %d prints it: the texts
\* it may come to, more than one only where the conversion is out of
\* int64's range.  NaN (zero held to a scale above 308) converts to
\* math.MinInt64 on amd64 and to 0 on arm64.
MebiBytes(size) ==
    IF AsApproximateFloat64(size).class = "nan" THEN {MinInt64Text, <<"0">>}
    ELSE Int64Texts(size.neg, Shifted(AsApproximateFloat64(size), 20))

\* NewTmpfsVolume, lines 46-49: mountOpts, as they may come out.
MountOpts(size) ==
    {<<<<"s", "i", "z", "e", "=">> \o n \o <<"M">>,
       <<"h", "u", "g", "e", "=", "a", "l", "w", "a", "y", "s">>>> :
        n \in MebiBytes(size)}

\* Resolved devices, and the sources and targets of the mounts met: the
\* device, a partition of it, another device, a tmpfs; the local mount
\* paths of the pd and the lssd cache, a path that goes on after the first,
\* the root.
SdB == DevDir \o <<"s", "d", "b">>

SdC == DevDir \o <<"s", "d", "c">>

PdPathText == <<"/", "l", "o", "c", "a", "l", "/", "p", "d">>

LssdPathText == <<"/", "l", "o", "c", "a", "l", "/", "l", "s", "s", "d">>

MountSources == {SdB, SdB \o <<"1">>, SdC, <<"t", "m", "p", "f", "s">>}

MountPoints == {PdPathText, PdPathText \o <<"2">>, LssdPathText, <<"/">>}

MountLines == {MountLine(src, tgt) : src \in MountSources, tgt \in MountPoints}

MountTables(maxLines) == {MountTable(lines) : lines \in SeqsUpTo(MountLines, maxLines)}

\* Sizes: none, a byte, half a mebibyte, a megabyte, a mebibyte, one and a
\* half, ten, a thousandth of a byte, a gibibyte below zero; the most a
\* binary unit gives (2^63 - 1, which no float64 holds), a billionth of a
\* byte less than 8Mi, 10^30 and 10^400; and numbers of 16 and 17 digits
\* held to a scale that is not 0: written with a fraction, with a
\* fraction and a binary unit, and with an exponent below 0.
TmpfsSizes ==
    {Zero} \cup
    {MustParse(t) : t \in {<<"1">>, <<"5", "1", "2", "K", "i">>, <<"1", "M">>,
                           <<"1", "M", "i">>, <<"1", ".", "5", "M", "i">>,
                           <<"1", "0", "M", "i">>, <<"1", "e", "-", "3">>,
                           <<"-", "1", "G", "i">>, <<"8", "E", "i">>,
                           <<"8", "3", "8", "8", "6", "0", "7", "9", "9", "9", "9",
                             "9", "9", "9", "9", "9", "n">>,
                           <<"1", "e", "3", "0">>, <<"1", "e", "4", "0", "0">>,
                           <<"1", "3", "9", "3", "4", "7", "2", "2", "9", "0", "9", "4", "7", "0", "7", "1", "8", ".", "0">>,
                           <<"7", "1", "4", "8", "8", "4", "9", "3", "4", "6", "2", "7", "3", "2", "7", "9", ".", "2", "5", "K", "i">>,
                           <<"9", "0", "1", "7", "8", "7", "6", "0", "9", "6", "5", "0", "2", "7", "4", "7", "e", "-", "4">>}}

VolumeInputs(maxLines) ==
    {[NoCodec EXCEPT !.op = "device", !.mounts = t, !.actualDevice = d,
                     !.mountPath = p, !.dirOk = dir, !.toolOk = ok] :
        t \in MountTables(maxLines), d \in {SdB, SdC}, p \in {PdPathText, LssdPathText},
        dir \in BOOLEAN, ok \in BOOLEAN}
    \cup {[NoCodec EXCEPT !.op = "tmpfs", !.size = sz, !.dirOk = dir, !.toolOk = ok] :
            sz \in TmpfsSizes, dir \in BOOLEAN, ok \in BOOLEAN}

\* NewFromDevice is called.  Without a line for mountPath it makes the
\* directory (an error of os.MkdirAll is returned) and calls
\* FormatAndMount, which adds the mount to the table.
Call_NewFromDevice ==
    /\ codec.op = "device" /\ codec.stage = "in"
    /\ LET found == ScanMounts(codec.mounts, codec.actualDevice, codec.mountPath)
           to == NewFromDevice(found, codec.mountPath)
       IN codec' = [codec EXCEPT
             !.stage = "done",
             !.vol = IF to.pc = "assign" THEN to.res
                     ELSE IF ~codec.dirOk THEN TerminalError("mkdirAll")
                     ELSE FormatAndMount(found, codec.mountPath, codec.toolOk),
             !.mkdir = (found = "none"),
             !.ran = (found = "none" /\ codec.dirOk),
             !.after = IF found = "none" /\ codec.dirOk /\ codec.toolOk
                       THEN codec.mounts \o MountTable(<<MountLine(codec.actualDevice,
                                                                   codec.mountPath)>>)
                       ELSE codec.mounts]
    /\ UNCHANGED codecFrame

\* NewTmpfsVolume is called: a zero size is refused, an error of
\* os.MkdirAll is returned, and the mount tool is called with the options.
Call_NewTmpfsVolume ==
    /\ codec.op = "tmpfs" /\ codec.stage = "in"
    /\ \E opts \in IF IsZero(codec.size) \/ ~codec.dirOk THEN {<<>>}
                    ELSE MountOpts(codec.size) :
          codec' = [codec EXCEPT
             !.stage = "done",
             !.vol = IF NewTmpfsVolume(codec.size).pc = "assign"
                     THEN NewTmpfsVolume(codec.size).res
                     ELSE IF ~codec.dirOk THEN TerminalError("mkdirAll")
                     ELSE MountTmpfs(codec.toolOk),
             !.mkdir = ~IsZero(codec.size),
             !.ran = ~IsZero(codec.size) /\ codec.dirOk,
             !.opts = opts]
    /\ UNCHANGED codecFrame

VolumeNext ==
    \/ Call_NewFromDevice
    \/ Call_NewTmpfsVolume

InitVolume == ClusterInit({ScSome}) /\ codec \in VolumeInputs(MaxMountLines) /\ raid = NoRaid

SpecVolume == InitVolume /\ [][VolumeNext]_vars

\* ---------------------------------------------- the RAID manager's calls
\* Lines of /proc/mdstat as TestGetInactiveDevices has them: inactive and
\* active arrays, the header, a block count; and an array line without
\* members, an indented one, one without the space after the name.
StatLines ==
    {<<"m", "d", "1", " ", ":", " ", "i", "n", "a", "c", "t", "i", "v", "e",
       " ", "s", "d", "b", "[", "3", "]", "(", "S", ")">>,
     <<"m", "d", "2", " ", ":", " ", "i", "n", "a", "c", "t", "i", "v", "e",
       " ", "r", "a", "m", "0", "[", "3", "]", "(", "S", ")">>,
     <<"m", "d", "1", " ", ":", " ", "a", "c", "t", "i", "v", "e", " ", "r",
       "a", "i", "d", "1", " ", "s", "d", "d", "[", "1", "]", " ", "r",
       "a", "m", "0", "[", "0", "]">>,
     <<"P", "e", "r", "s", "o", "n", "a", "l", "i", "t", "i", "e", "s", " ",
       ":", " ", "[", "r", "a", "i", "d", "1", "]">>,
     <<" ", " ", " ", " ", " ", " ", "1", "0", " ", "b", "l", "o", "c", "k",
       "s", " ", "s", "u", "p", "e", "r", " ", "1", ".", "2">>,
     <<"m", "d", "3", " ", ":", " ", "i", "n", "a", "c", "t", "i", "v", "e">>,
     <<" ", "m", "d", "4", " ", ":", " ", "i", "n", "a", "c", "t", "i", "v",
       "e", " ", "s", "d", "c">>,
     <<"m", "d", "5", " ", ":", "i", "n", "a", "c", "t", "i", "v", "e", " ",
       "s", "d", "c">>}

MdstatTexts(maxLines) == {Join(lines, "\n") : lines \in SeqsUpTo(StatLines, maxLines)}

\* The worlds Init may meet: the array running over its members, or not
\* running, any of the members carrying metadata, any of them missing.
RaidWorlds(maxLines) ==
    LET all == {RaidMembers[i] : i \in 1..Len(RaidMembers)}
    IN {World(TRUE, all, all, t) : t \in MdstatTexts(maxLines)}
       \cup {World(FALSE, meta, present, t) :
                meta \in SUBSET all, present \in SUBSET all, t \in MdstatTexts(maxLines)}

RaidInputs(maxLines) ==
    {[NoRaid EXCEPT !.mode = m, !.w = w] :
        m \in {"striped", "mirror"}, w \in RaidWorlds(maxLines)}

raidFrame == <<ctlVars, agent, codec>>

\* Init is entered as the next call: the calls under way are no longer
\* alone, and neither is the new one when there are any.
Entered ==
    [raid EXCEPT !.inits = @ + 1,
                 !.stop = [called |-> FALSE, err |-> FALSE],
                 !.calls = [j \in Calls |->
                     IF j = raid.inits + 1
                     THEN [NoCall EXCEPT !.op = "Init", !.before = raid.w,
                                         !.alone = (InitsUnderWay = {})]
                     ELSE IF j \in InitsUnderWay THEN [raid.calls[j] EXCEPT !.alone = FALSE]
                     ELSE raid.calls[j]]]

\* (s *stripedArray) Init() is entered, line 112: isRaidDevice runs
\* --detail on the target, and a target that runs is left as it is.
\* NodePublishVolume calls Init through NewLocalSSDVolume whenever it finds
\* no volume, so a call may be entered while another is under way.
StripedEntered ==
    LET i == raid.inits + 1
        probed == runMdadm(Frame(Entered, i), <<"--detail", RaidTarget>>, TRUE)
    IN Settle(Entered, i, IF ~probed.err THEN Returned(probed, FALSE)
                          ELSE [probed EXCEPT !.pc = "validate"])

stripedArray_Init_Enter ==
    /\ raid.mode = "striped" /\ raid.inits < MaxInits
    /\ raid' = StripedEntered
    /\ UNCHANGED raidFrame

\* (m *mirrorArray) Init() is entered, line 67: the primary is validated.
\* Nothing in the program calls it; the calls made here follow one another.
mirrorArray_Init_Enter ==
    /\ raid.mode = "mirror" /\ InitsUnderWay = {} /\ raid.inits < MaxInits
    /\ LET i == raid.inits + 1
           call == Frame(Entered, i)
       IN raid' = Settle(Entered, i,
                         IF validateDevice(raid.w, RaidMembers[1]) THEN Returned(call, TRUE)
                         ELSE IF Len(RaidMembers) = 1 THEN [call EXCEPT !.pc = "stop"]
                         ELSE [call EXCEPT !.pc = "validate", !.next = 2])
    /\ UNCHANGED raidFrame

\* Init, lines 116-120 and 70-74: validateDevice of the next device; the
\* first failure is returned.
Init_validateDevice(i) ==
    /\ At(i, "validate")
    /\ LET call == Frame(raid, i) IN
       raid' = Settle(raid, i,
                      IF validateDevice(raid.w, RaidMembers[call.next])
                      THEN Returned(call, TRUE)
                      ELSE IF call.next < Len(RaidMembers)
                      THEN [call EXCEPT !.next = @ + 1]
                      ELSE [call EXCEPT !.pc = "stop", !.next = 1])
    /\ UNCHANGED raidFrame

\* stopAllInactive, lines 185-189: the status text is read and the inactive
\* arrays are taken from it.
stopAllInactive(i, readOk) ==
    /\ At(i, "stop")
    /\ LET call == Frame(raid, i)
           devices == getInactiveDevices(raid.w.mdstat)
       IN raid' = Settle(raid, i,
                         IF ~readOk THEN Returned(call, TRUE)
                         ELSE IF devices = <<>>
                         THEN [call EXCEPT !.pc = "examine", !.err = FALSE]
                         ELSE [call EXCEPT !.pc = "stopping", !.todo = devices,
                                           !.err = FALSE])
    /\ UNCHANGED raidFrame

\* stopAllInactive, lines 190-196: the next inactive array is stopped, a
\* failure to stop is logged and passed over.
stopAllInactive_Stop(i, ok) ==
    /\ At(i, "stopping")
    /\ LET call == Frame(raid, i)
           run == runMdadm(call, <<"--stop", Head(call.todo)>>, ok)
       IN raid' = Settle(raid, i,
                         [run EXCEPT !.err = FALSE, !.todo = Tail(@),
                                     !.pc = IF Len(call.todo) = 1 THEN "examine" ELSE @])
    /\ UNCHANGED raidFrame

\* The devices assembleExistingMirror is given: the replicas when the
\* primary carries the metadata, else the primary and all the replicas.
MirrorDevices(existing) ==
    IF existing = RaidMembers[1] THEN Tail(RaidMembers) ELSE RaidMembers

\* assembleExistingMirror, lines 151-152: the devices to wipe.
OtherDevices(existing) == SelectSeq(MirrorDevices(existing), LAMBDA d : d # existing)

\* isExistingRaidVolume of the next device: the first device that carries
\* metadata is the one to assemble from; with none the array is created.
isExistingRaidVolume(i) ==
    /\ At(i, "examine")
    /\ LET dev == RaidMembers[raid.calls[i].next]
           probed == runMdadm(Frame(raid, i), <<"--examine", dev>>, TRUE)
       IN raid' = Settle(raid, i,
                         IF ~probed.err
                         THEN [probed EXCEPT
                                  !.existing = dev,
                                  !.todo = IF raid.mode = "striped" THEN <<>>
                                           ELSE OtherDevices(dev),
                                  !.pc = IF raid.mode = "striped" THEN "assemble"
                                         ELSE IF OtherDevices(dev) = <<>> THEN "bootstrap"
                                         ELSE "wipe"]
                         ELSE IF probed.next < Len(RaidMembers)
                         THEN [probed EXCEPT !.next = @ + 1, !.err = FALSE]
                         ELSE [probed EXCEPT !.pc = "create", !.err = FALSE])
    /\ UNCHANGED raidFrame

\* The mirror's way taken for a stripe: on to wiping the others.
assembleExistingStriped_WipeAndAdd(i, ok) ==
    /\ At(i, "assemble")
    /\ raid' = [raid EXCEPT !.calls[i].pc = "wipe",
                            !.calls[i].todo = OtherDevices(raid.calls[i].existing)]
    /\ UNCHANGED raidFrame

\* assembleExistingStriped(target, devices...)
assembleExistingStriped(i, ok) ==
    /\ At(i, "assemble")
    /\ LET run == runMdadm(Frame(raid, i),
                           <<"--assemble", RaidTarget>> \o RaidMembers \o <<"--run">>, ok)
       IN raid' = Settle(raid, i, Returned(run, run.err))
    /\ UNCHANGED raidFrame

\* One device is done with: on to the next, or to the assembly.
Wiped(call) ==
    [call EXCEPT !.todo = Tail(@),
                 !.pc = IF Len(call.todo) = 1 THEN "bootstrap" ELSE "wipe"]

\* assembleExistingMirror, lines 151-155, and wipeDevice, lines 221-223:
\* the next device but the existing one is looked at; one that os.Stat does
\* not find is passed over, the error ignored.
assembleExistingMirror_Wipe(i) ==
    /\ At(i, "wipe")
    /\ LET call == Frame(raid, i) IN
       raid' = Settle(raid, i,
                      IF Head(call.todo) \notin raid.w.present THEN Wiped(call)
                      ELSE [call EXCEPT !.pc = "zero"])
    /\ UNCHANGED raidFrame

\* wipeDevice, lines 224-226: the device found is wiped.
wipeDevice_Zero(i, ok) ==
    /\ At(i, "zero")
    /\ LET call == Frame(raid, i) IN
       raid' = Settle(raid, i, Wiped(wipeDevice(call, Head(call.todo), ok)))
    /\ UNCHANGED raidFrame

\* assembleExistingMirror, lines 156-159: the array is assembled from the
\* existing device.
assembleExistingMirror_Assemble(i, ok) ==
    /\ At(i, "bootstrap")
    /\ LET run == runMdadm(Frame(raid, i),
                           <<"--assemble", RaidTarget, raid.calls[i].existing, "--run">>, ok)
       IN raid' = Settle(raid, i, IF run.err THEN Returned(run, TRUE)
                                  ELSE [run EXCEPT !.pc = "add"])
    /\ UNCHANGED raidFrame

\* assembleExistingMirror, lines 160-161: the other devices are added.
assembleExistingMirror_Add(i, ok) ==
    /\ At(i, "add")
    /\ LET run == runMdadm(Frame(raid, i),
                           <<"--add", RaidTarget>> \o MirrorDevices(raid.calls[i].existing),
                           ok)
       IN raid' = Settle(raid, i, IF run.err THEN [run EXCEPT !.pc = "cleanup"]
                                  ELSE Returned(run, FALSE))
    /\ UNCHANGED raidFrame

\* assembleExistingMirror, lines 162-163: the add has failed; the array is
\* stopped, as well as that goes, and the add's error returned.
assembleExistingMirror_Stop(i, ok) ==
    /\ At(i, "cleanup")
    /\ raid' = Settle(raid, i,
                      Returned(runMdadm(Frame(raid, i), <<"--stop", RaidTarget>>, ok), TRUE))
    /\ UNCHANGED raidFrame

\* createNewStriped and createNewMirror
createNew(i, ok) ==
    /\ At(i, "create")
    /\ LET level == IF raid.mode = "striped" THEN "0" ELSE "1"
           run == runMdadm(Frame(raid, i),
                           <<"--create", RaidTarget, "--level", level, "--run",
                             "--raid-devices", Itoa(Len(RaidMembers))>>
                           \o RaidMembers, ok)
       IN raid' = Settle(raid, i, Returned(run, run.err))
    /\ UNCHANGED raidFrame

\* RaidArray.Stop(): stopRaidDevice(target).  Nothing in the program calls
\* it; it is called here between the Init calls.
stopRaidDevice(ok) ==
    /\ InitsUnderWay = {} /\ ~raid.stop.called
    /\ raid' = [raid EXCEPT
          !.stop = [called |-> TRUE, err |-> MdadmFails(raid.w, <<"--stop", RaidTarget>>, ok)],
          !.w = IF MdadmFails(raid.w, <<"--stop", RaidTarget>>, ok) THEN @
                ELSE MdadmEffect(@, <<"--stop", RaidTarget>>)]
    /\ UNCHANGED raidFrame

\* The node restarts: the array no longer runs, its members keep their metadata.
NodeRestart ==
    /\ InitsUnderWay = {} /\ raid.w.live
    /\ raid' = [raid EXCEPT !.w.live = FALSE, !.stop = [called |-> FALSE, err |-> FALSE]]
    /\ UNCHANGED raidFrame

\* A member of the mirror goes (unplugged, or failed and dropped by the
\* kernel) between the probes of an Init and its wipes, or between
\* wipeDevice's look at a device and its command.  The stripe's Init stats
\* its devices once only, and the worlds it may meet have devices missing;
\* the mirror's stats them again in wipeDevice.
DeviceRemoved(d) ==
    /\ raid.mode = "mirror"
    /\ \E i \in InitsUnderWay : raid.calls[i].pc \in {"wipe", "zero"}
    /\ d \in raid.w.present
    /\ raid' = [raid EXCEPT !.w.present = @ \ {d}]
    /\ UNCHANGED raidFrame

\* getInactiveDevices is called on the status text.
Call_getInactiveDevices ==
    /\ ~raid.parsed.called
    /\ raid' = [raid EXCEPT !.parsed = [called |-> TRUE, text |-> raid.w.mdstat,
                                        devices |-> getInactiveDevices(raid.w.mdstat)]]
    /\ UNCHANGED raidFrame

RaidNext ==
    \/ stripedArray_Init_Enter
    \/ mirrorArray_Init_Enter
    \/ \E i \in Calls : Init_validateDevice(i)
    \/ \E i \in Calls, readOk \in BOOLEAN : stopAllInactive(i, readOk)
    \/ \E i \in Calls, ok \in BOOLEAN : stopAllInactive_Stop(i, ok)
    \/ \E i \in Calls : isExistingRaidVolume(i)
    \/ \E i \in Calls, ok \in BOOLEAN : assembleExistingStriped(i, ok)
    \/ \E i \in Calls : assembleExistingMirror_Wipe(i)
    \/ \E i \in Calls, ok \in BOOLEAN : wipeDevice_Zero(i, ok)
    \/ \E i \in Calls, ok \in BOOLEAN : assembleExistingMirror_Assemble(i, ok)
    \/ \E i \in Calls, ok \in BOOLEAN : assembleExistingMirror_Add(i, ok)
    \/ \E i \in Calls, ok \in BOOLEAN : assembleExistingMirror_Stop(i, ok)
    \/ \E i \in Calls, ok \in BOOLEAN : createNew(i, ok)
    \/ \E ok \in BOOLEAN : stopRaidDevice(ok)
    \/ NodeRestart
    \/ \E d \in Members : DeviceRemoved(d)
    \/ Call_getInactiveDevices

InitRaid == ClusterInit({ScSome}) /\ codec = NoCodec /\ raid \in RaidInputs(MaxStatLines)

SpecRaid == InitRaid /\ [][RaidNext]_vars

\* ------------------------------------------- the agent's local-SSD array
\* NewLocalSSDVolume, line 33: array.Init() is entered, as the next call of
\* the array manager.
NewLocalSSDVolume_Init(i) ==
    /\ ~agent.down /\ agent.rpc[i].pc = "init"
    /\ raid.mode = "striped" /\ raid.inits < MaxInits
    /\ raid' = StripedEntered
    /\ agent' = [agent EXCEPT !.rpc[i].pc = "array",
                              !.rpc[i].init = raid.inits + 1,
                              !.rpc[i].ran = TRUE,
                              !.rpc[i].late = agent.built > 0]
    /\ UNCHANGED <<cm, lssdFrame>>

\* NewLocalSSDVolume, lines 33-36: array.Init() has returned.
NewLocalSSDVolume_Return(i) ==
    /\ ~agent.down /\ agent.rpc[i].pc = "array"
    /\ raid.calls[agent.rpc[i].init].pc = "idle"
    /\ LET to == NewLocalSSDVolume_Array(raid.calls[agent.rpc[i].init].err)
       IN agent' = [agent EXCEPT !.rpc[i].pc = to.pc, !.rpc[i].res = to.res]
    /\ UNCHANGED <<cm, agentFrame>>

\* A local-SSD cache's array is initialised.
LssdNext ==
    \/ \E i \in Rpcs, readOk \in BOOLEAN : NewLocalSSDVolume_getLocalSSDs(i, readOk)
    \/ \E i \in Rpcs : NewLocalSSDVolume_Init(i)
    \/ \E i \in Rpcs : NewLocalSSDVolume_Return(i)
    \/ \E i \in Calls : Init_validateDevice(i)
    \/ \E i \in Calls, readOk \in BOOLEAN : stopAllInactive(i, readOk)
    \/ \E i \in Calls, ok \in BOOLEAN : stopAllInactive_Stop(i, ok)
    \/ \E i \in Calls : isExistingRaidVolume(i)
    \/ \E i \in Calls, ok \in BOOLEAN : assembleExistingStriped(i, ok)
    \/ \E i \in Calls, ok \in BOOLEAN : createNew(i, ok)

\* The unpublish calls that change what is mounted: of a target, the
\* umount succeeding.
UnmountNext == \E target \in MountTargets : NodeUnpublishVolume(target, TRUE)

AgentNext == AgentEnv \/ AgentRpcNext \/ LssdNext \/ UnmountNext

\* The node of the agent: two local SSDs that carry no array metadata, no
\* array running on them, and an inactive array of another name.
AgentRaid ==
    [NoRaid EXCEPT !.w = World(FALSE, {}, Members,
                               <<"m", "d", "1", " ", ":", " ", "i", "n", "a", "c", "t",
                                 "i", "v", "e", " ", "s", "d", "b", "[", "3", "]", "(",
                                 "S", ")">>)]

InitAgent == JoinedInit(AgentScenarios) /\ codec = NoCodec /\ raid = AgentRaid

SpecAgent == InitAgent /\ [][AgentNext]_vars

\* The steps a worker takes once it holds a key.
NodeLoopSteps ==
    \/ Reconcile_GetConfigMap(TRUE)
    \/ updatePdVolumeType_Get(TRUE)
    \/ updatePVCForLifecycle_Create
    \/ updatePVCForLifecycle_Update
    \/ Reconcile_WriteMapping
    \/ deleteOrphanedPDs_ListClaims(TRUE)
    \/ deleteOrphanedPDs_ListNodes(TRUE)
    \/ deleteOrphanedPDs_Delete
    \/ deleteOrphanedPDs_Strip

ClaimLoopSteps ==
    \/ pvcReconcile_GetPVC
    \/ pvcReconcile_GetNode
    \/ pvcReconcile_UpdateMapping
    \/ pvcReconcile_GetPV
    \/ diskIsAttached_GetNode
    \/ \E callOk \in BOOLEAN : pvcReconcile_IsAttached(callOk)
    \/ \E callOk \in BOOLEAN : pvcReconcile_Attach(callOk)
    \/ \E answer \in PollAnswers : attachDisk_Poll(answer)
    \/ pvcReconcile_Delete
    \/ pvcReconcile_Strip

\* Scheduling of the two controllers: a worker that holds a key goes on; the
\* work queue is first-in first-out, so a key that keeps being queued is
\* taken; the informer caches catch up; the provider's calls do not fail
\* forever; the orchestrator's protection controller does its work.
Fairness ==
    /\ WF_vars(NodeLoopSteps)
    /\ WF_vars(ClaimLoopSteps)
    /\ \A k \in Nodes : SF_vars(Reconcile_GetNode(k, TRUE))
    /\ \A k \in Nodes : SF_vars(pvcReconcile_GetConfigMap(k))
    /\ WF_vars(CacheSync)
    /\ \A n \in Nodes : WF_vars(ClaimCacheSync(n))
    /\ SF_vars(pvcReconcile_IsAttached(TRUE))
    /\ SF_vars(pvcReconcile_Attach(TRUE))
    /\ \A v \in Volumes : SF_vars(AttachCompletes(v, TRUE))
    /\ \A n \in Nodes : WF_vars(ReleaseProtection(n))

\* The fair runs: the nodes join, and a pd node may leave.
DeletePdNode(n) == labelsOf[n].kind = pdVolumeType /\ DeleteNode(n)

FairEnv ==
    \/ \E n \in Nodes : CreateNode(n)
    \/ \E n \in Nodes : DeletePdNode(n)
    \/ \E n \in Nodes : BindClaim(n)
    \/ \E n \in Nodes : ReleaseProtection(n)
    \/ \E n \in Nodes : ClaimCacheSync(n)
    \/ CacheSync

\* In the fair runs the reads through the manager's client answer.
FairNext == FairEnv \/ NodeLoopIn({TRUE}) \/ ClaimLoopNext

SpecFair == InitIn({ScPair, ScAdopt}) /\ [][FairNext]_vars /\ Fairness

\* The runs in which the stored map is edited by hand: the nodes join and
\* keep being resynchronised, a pd node may leave, and the stored text may
\* be edited into one that does not parse.

\* The informer's periodic resync: every node there is handed to the node
\* loop again.
Resync ==
    /\ nodeQ' = nodeQ \cup {n \in Nodes : nodes[n].exists}
    /\ nodeQ' # nodeQ
    /\ UNCHANGED <<raid, codec, pdStorageClass, labelsOf, nodes, budget, mayTerminate, pvcs,
                   pvcRV, pvs, nextVol, cm, cmCache, claimQ, nw, cw, attachReqs,
                   everBound, agent>>

HealNext ==
    \/ \E n \in Nodes : CreateNode(n)
    \/ Resync
    \/ \E n \in Nodes : BindClaim(n)
    \/ \E n \in Nodes : ClaimCacheSync(n)
    \/ CacheSync
    \/ EditMap
    \/ \E k \in Nodes : Reconcile_GetNode(k, TRUE)
    \/ Reconcile_GetConfigMap(TRUE)
    \/ updatePdVolumeType_Get(TRUE)
    \/ updatePVCForLifecycle_Create
    \/ Reconcile_WriteMapping
    \/ \E k \in Nodes : pvcReconcile_GetConfigMap(k)
    \/ pvcReconcile_GetPVC
    \/ pvcReconcile_GetNode
    \/ pvcReconcile_UpdateMapping
    \/ pvcReconcile_GetPV
    \/ diskIsAttached_GetNode
    \/ \E callOk \in BOOLEAN : pvcReconcile_IsAttached(callOk)
    \/ \E callOk \in BOOLEAN : pvcReconcile_Attach(callOk)
    \/ \E answer \in PollAnswers : attachDisk_Poll(answer)
    \/ \E v \in Volumes, ok \in BOOLEAN : AttachCompletes(v, ok)

\* The node loop's worker keeps running, takes every key queued for it, and
\* the cache and the resync keep up.
HealFairness ==
    /\ WF_vars(NodeLoopSteps)
    /\ \A k \in Nodes : SF_vars(Reconcile_GetNode(k, TRUE))
    /\ WF_vars(CacheSync)
    /\ \A n \in Nodes : WF_vars(ClaimCacheSync(n))
    /\ WF_vars(Resync)

SpecHeal == InitIn({ScPair}) /\ [][HealNext]_vars /\ HealFairness

\* The fair runs with the claim informer's periodic resync: every claim
\* there is handed to the claim loop again.
ClaimResync ==
    /\ claimQ' = claimQ \cup {n \in Nodes : ClaimLoopEnabled /\ ClaimCached(n)}
    /\ claimQ' # claimQ
    /\ UNCHANGED <<raid, codec, pdStorageClass, labelsOf, nodes, budget, mayTerminate, pvcs,
                   pvcRV, pvs, nextVol, cm, cmCache, nodeQ, nw, cw, attachReqs,
                   everBound, agent>>

ResyncNext == FairNext \/ ClaimResync

SpecResync ==
    InitIn({ScPair, ScAdopt}) /\ [][ResyncNext]_vars /\ Fairness /\ WF_vars(ClaimResync)

\* The fair runs with the node informer's periodic resync.  Its period is
\* hours, a reconcile takes seconds: the resync comes when the node loop rests.
IdleResync == nodeQ = {} /\ nw.pc = "idle" /\ Resync

\* A pd node that leaves and joins again, its claim not bound meanwhile.
NodeResyncEnv ==
    \/ \E n \in Nodes : CreateNode(n)
    \/ \E n \in Nodes : DeletePdNode(n)
    \/ \E n \in Nodes : ReleaseProtection(n)
    \/ \E n \in Nodes : ClaimCacheSync(n)
    \/ CacheSync
    \/ IdleResync

NodeResyncNext ==
    \/ NodeResyncEnv
    \/ NodeLoopIn({TRUE})
    \/ \E k \in Nodes : pvcReconcile_GetConfigMap(k)
    \/ pvcReconcile_GetPVC
    \/ pvcReconcile_GetNode
    \/ pvcReconcile_Delete
    \/ pvcReconcile_Strip

SpecNodeResync ==
    InitIn({ScRecreate}) /\ [][NodeResyncNext]_vars /\ Fairness /\ WF_vars(IdleResync)

\* Two pd nodes that join once each and may linger deletion-marked, and the
\* node loop with its sweep over the claims of both.
ScBoth ==
    [labels |-> [n \in Nodes |-> PdLabels],
     budget |-> [n \in Nodes |-> 1],
     mayTerminate |-> TRUE, adopted |-> {}, quota |-> MaxVolumes]

BothEnv ==
    \/ \E n \in Nodes : CreateNode(n)
    \/ \E n \in Nodes : DeleteNode(n)
    \/ \E n \in Nodes : TerminateNode(n)
    \/ \E n \in Nodes : ReleaseProtection(n)
    \/ \E n \in Nodes : ClaimCacheSync(n)
    \/ CacheSync

BothNext == BothEnv \/ NodeLoopNext

SpecBoth == InitIn({ScBoth}) /\ [][BothNext]_vars

\* The reconciler with and without a PD storage class (cmd/controller's
\* --pd-storage-class), over a pd node with a size and a pd node without.
InitGuard ==
    /\ pdStorageClass \in {"", StorageClassName}
    /\ labelsOf = [n \in Nodes |-> IF n = "a" THEN PdLabels ELSE UnsizedLabels]
    /\ budget = [n \in Nodes |-> 1]
    /\ mayTerminate = FALSE
    /\ pvcs = [n \in Nodes |-> NoPvc]
    /\ pvcRV = [n \in Nodes |-> 0]
    /\ nextVol = 0
    /\ CtlInit
    /\ agent = NoAgent /\ codec = NoCodec /\ raid = NoRaid

GuardEnv ==
    \/ \E n \in Nodes : CreateNode(n)
    \/ \E n \in Nodes : DeleteNode(n)
    \/ \E n \in Nodes : UpdateNode(n)
    \/ \E n \in Nodes : BindClaim(n)
    \/ \E n \in Nodes : ReleaseProtection(n)
    \/ \E n \in Nodes : ClaimCacheSync(n)
    \/ CacheSync

GuardNext == GuardEnv \/ NodeLoopNext \/ ClaimLoopNext

SpecGuard == InitGuard /\ [][GuardNext]_vars

\* ---------------------------------------------------------- properties
HasRetention(n) == Contains(pvcs[n].finalizers, finalizerLabel)

\* The quantity the size label of a pd node stands for (zero without one).
SizeOf(label) == LabelsRead[[kind |-> pdVolumeType, size |-> label]].info.Size

\* C5: in every reachable state, a live (existing, not deletion-marked) node
\* whose same-named claim is bound has the retention finalizer on that claim.
C5_RetentionWhileBound ==
    \A n \in Nodes :
        (NodeLive(n) /\ pvcs[n].exists /\ pvcs[n].bound) => HasRetention(n)

\* C8: every attach request names the handle of a volume bound to some claim c
\* together with the node named c, and no step takes a volume off a node
\* that is still there.
C8_AttachOwnNode ==
    /\ [](\A r \in attachReqs :
            \E b \in everBound : r = <<VolumeHandle(b[1]), b[2]>>)
    /\ [][\A v \in Volumes :
            (pvs[v].attachedTo # NoNode /\ pvs'[v].attachedTo # pvs[v].attachedTo)
                => ~nodes'[pvs[v].attachedTo].exists]_vars

C8_Witness ==
    \E n \in Nodes :
        /\ NodeLive(n) /\ pvcs[n].exists /\ pvcs[n].bound
        /\ pvs[pvcs[n].volumeName].attachedTo = n
        /\ <<VolumeHandle(pvcs[n].volumeName), n>> \in attachReqs

\* What the node loop needs of a node to give it an entry.
Eligible(n) ==
    /\ NodeLive(n) /\ nodes[n].kind # NoLabel
    /\ nodes[n].kind = pdVolumeType =>
          (~IsZero(SizeOf(nodes[n].size)) /\ pdStorageClass # "")

HasEntry(n) ==
    cm.exists /\ n \in DOMAIN cm.data /\ cm.data[n].VolumeType = labelsOf[n].kind

\* C1: under fair scheduling, every live node with a cache-kind label (a pd
\* node also with a size and a configured storage class) eventually has a
\* persisted map entry under its name whose kind is the label's value,
\* also when several nodes join at once and writes of the map collide.
C1_EntryEventually ==
    \A n \in Nodes : Eligible(n) ~> (HasEntry(n) \/ ~NodeLive(n))

C1_Witness ==
    /\ \A n \in Nodes : NodeLive(n) /\ HasEntry(n)
    /\ nodeQ = {} /\ nw.pc = "idle"

PdReady(n) ==
    /\ NodeLive(n) /\ nodes[n].kind = pdVolumeType
    /\ ~IsZero(SizeOf(nodes[n].size)) /\ pdStorageClass # ""

ClaimOK(n) ==
    /\ pvcs[n].exists
    /\ pvcs[n].storageClass = pdStorageClass
    /\ pvcs[n].volumeMode = PersistentVolumeBlock
    /\ pvcs[n].accessModes = <<ReadWriteOnce>>
    /\ pvcs[n].request = SizeOf(labelsOf[n].size)

\* A claim that stays is the claim it was: not made anew.
SameClaim(old, new) ==
    /\ new.storageClass = old.storageClass /\ new.volumeMode = old.volumeMode
    /\ new.accessModes = old.accessModes /\ new.request = old.request
    /\ old.bound => (new.bound /\ new.volumeName = old.volumeName)
    /\ old.deleting => new.deleting

\* C2: a live pd node with a size, under a configured storage class,
\* eventually has a claim of its own name with that class, block mode, one
\* exclusive writer and the size requested; and no reconcile makes a claim
\* where one of that name is.
C2_ClaimCreated ==
    /\ \A n \in Nodes : PdReady(n) ~> (ClaimOK(n) \/ ~NodeLive(n))
    /\ [][\A n \in Nodes :
            (pvcs[n].exists /\ pvcs'[n].exists) => SameClaim(pvcs[n], pvcs'[n])]_vars

\* A later reconcile of the node meets the claim the first one made.
C2_Witness ==
    \E n \in Nodes :
        /\ PdReady(n) /\ ClaimOK(n) /\ HasRetention(n)
        /\ nw.pc = "getPVC" /\ nw.key = n

BoundLive(n) == NodeLive(n) /\ pvcs[n].exists /\ pvcs[n].bound

DiskPersisted(n) ==
    cm.exists /\ n \in DOMAIN cm.data /\ cm.data[n].Disk = pvcs[n].volumeName

\* C3: once the claim of a live pd node is bound to a volume, and for as long
\* as it is, the node's map entry eventually names that volume as its disk,
\* also when the claim loop's first update of the map meets a conflict.
C3_DiskPersisted ==
    \A n \in Nodes : BoundLive(n) ~> (~BoundLive(n) \/ DiskPersisted(n))

\* The claim loop's update of the map failed and the disk is persisted later.
C3_Witness ==
    \E n \in Nodes :
        /\ BoundLive(n) /\ DiskPersisted(n)
        /\ cw.key = n /\ cw.mustRequeue

Attached(n) == diskIsAttached(VolumeHandle(pvcs[n].volumeName), n)

\* C4: a bound claim whose same-named node is live eventually has its volume
\* reported attached to that node; failed queries and attaches are retried.
C4_AttachedEventually ==
    \A n \in Nodes : BoundLive(n) ~> (~BoundLive(n) \/ Attached(n))

C4_Witness ==
    \E n \in Nodes :
        /\ BoundLive(n) /\ Attached(n)
        /\ <<VolumeHandle(pvcs[n].volumeName), n>> \in attachReqs
        /\ cw.pc = "idle" /\ n \notin claimQ

Orphaned(n) ==
    /\ labelsOf[n].kind = pdVolumeType
    /\ ~nodes[n].exists /\ budget[n] = 0 /\ pvcs[n].exists

Released(n) == ~pvcs[n].exists \/ (pvcs[n].deleting /\ ~HasRetention(n))

\* C6: after a pd node with a claim is deleted for good, the claim named
\* after it is eventually deleted and loses the retention finalizer, also
\* when the first delete-then-strip attempt fails part-way.
C6_OrphanReleased ==
    \A n \in Nodes : Orphaned(n) ~> Released(n)

Done(i) == agent.rpc[i].pc = "done"

\* C7: construction of the local volume is serialized and succeeds at most
\* once: never two publishes inside createCacheVolume at a time, never two
\* successful constructions, never a tool started after one has succeeded.
C7_AtMostOneConstruction ==
    /\ Cardinality({i \in Rpcs : agent.rpc[i].pc = "create"}) <= 1
    /\ agent.built <= 1
    /\ \A i \in Rpcs : ~agent.rpc[i].late

\* C9: a publish that finds the pd backing not ready (no map, no entry, no
\* disk name, no device) returns aborted and leaves d.vol nil; one that
\* finds it ready is not aborted; and a publish succeeds only on a volume
\* that was constructed, so an earlier aborted publish does not stand in
\* the way of the next one.
C9_PendingNotSticky ==
    /\ [][\A i \in Rpcs :
            (~Done(i) /\ agent'.rpc[i].pc = "done"
                /\ agent'.rpc[i].code = "Aborted") => agent'.vol = "nil"]_vars
    /\ [](\A i \in Rpcs :
            LET r == agent.rpc[i] IN
            (Done(i) /\ r.sawNil /\ labelsOf[AgentNode].kind = pdVolumeType) =>
                /\ (~r.ready /\ r.cause # "malformed") => r.code = "Aborted"
                /\ r.ready => r.code # "Aborted")
    /\ [](\A i \in Rpcs :
            (Done(i) /\ agent.rpc[i].code = "OK") =>
                (agent.built >= 1 /\ agent.vol \in {"nil", tmpfsPath, lssdPath, pdPath}))

\* A first publish came too early and was aborted; the next one, with the
\* disk named in the map and attached, constructed the volume and succeeded.
C9_Witness ==
    /\ Done(1) /\ agent.rpc[1].code = "Aborted"
    /\ Done(2) /\ agent.rpc[2].code = "OK"
    /\ agent.rpc[2].sawNil /\ agent.rpc[2].ready /\ agent.rpc[2].ran
    /\ agent.vol = pdPath /\ agent.rpc[2].target \in agent.mounts

PendingCauses == {"pollTimeout", "nodeAbsent", "emptyDisk", "deviceAbsent"}

OtherCauses ==
    {"malformed", "unknownKind", "zeroTmpfs", "mountMismatch", "bindMount"}

\* C10: publish returns invalid-argument exactly for an empty target, and
\* then constructs and mounts nothing; a failed construction is aborted
\* exactly for the Pending causes; every other failure is internal.
C10_StatusCodes ==
    \A i \in Rpcs :
        LET r == agent.rpc[i] IN
        Done(i) =>
            /\ r.code = "InvalidArgument" <=> r.target = ""
            /\ r.code = "InvalidArgument" => (~r.sawNil /\ ~r.ran)
            /\ r.code = "Aborted" <=> r.cause \in PendingCauses
            /\ r.cause \in OtherCauses => r.code = "Internal"

Unlabelled(n) == labelsOf[n].kind = NoLabel

\* The node loop holds, past the fetch of the node, a node without the label.
SkippingNode == nw.pc = "getConfigMap" /\ nw.kind = NoLabel

\* C11: the map never has an entry for a node that never carried the
\* cache-kind label, and the node loop's reconcile of such a node ends in
\* success (no requeue) and leaves the configuration object and every claim
\* as they were.
C11_NoEntryWithoutLabel ==
    /\ [](\A n \in Nodes : Unlabelled(n) => n \notin DOMAIN cm.data)
    /\ [][(SkippingNode /\ nw' # nw) =>
            /\ nw' = NWIdle /\ nodeQ' = nodeQ
            /\ cm' = cm /\ pvcs' = pvcs /\ pvcRV' = pvcRV]_vars

\* The unlabelled node was reconciled beside a labelled one that has its entry.
C11_Witness ==
    \E n \in Nodes :
        /\ Unlabelled(n) /\ NodeLive(n) /\ n \notin nodeQ /\ nw.pc = "idle"
        /\ budget[n] < MaxIncarnations
        /\ cm.exists /\ DOMAIN cm.data = Nodes \ {n}

\* The mounts on the targets, each with the target it is on.
Published ==
    UNION {{[target |-> t, gen |-> agent.view[t][k].gen, by |-> agent.view[t][k].by] :
              k \in 1..Len(agent.view[t])} : t \in MountTargets}

\* C12: within one agent process all publishes bind-mount the same local
\* volume, so any two targets that process has mounted show the same
\* contents, whatever the interleaving of publishes and unpublishes.
C12_SameBacking ==
    \A m1, m2 \in Published : m1.by = m2.by => m1.gen = m2.gen

\* C13: a publish that finds its target a mount point already ends in
\* success and mounts nothing, so publishing twice to one target, one call
\* after the other with no unpublish between them, leaves one bind mount.
C13_RepublishNoop ==
    /\ [][\A i \in Rpcs :
            (/\ agent.rpc[i].pc = "mount" /\ agent'.rpc[i].pc # "mount"
             /\ agent'.epoch = agent.epoch
             /\ agent.view[agent.rpc[i].target] # <<>>
             /\ agent'.rpc[i].cause # "targetBadState")
            => (/\ agent'.rpc[i].pc = "done" /\ agent'.rpc[i].code = "OK"
                /\ agent'.view = agent.view)]_vars
    /\ [](\A t \in MountTargets :
            t \notin agent.contended => Len(agent.view[t]) <= 1)

\* Two publishes to one target, the second after the first had returned,
\* no unpublish: both succeeded, one mount.
C13_Witness ==
    /\ Done(1) /\ agent.rpc[1].code = "OK"
    /\ Done(2) /\ agent.rpc[2].code = "OK"
    /\ agent.rpc[1].target = agent.rpc[2].target
    /\ agent.rpc[1].target \notin agent.contended
    /\ agent.unpublished = ""
    /\ Len(agent.view[agent.rpc[1].target]) = 1

\* C14: an unpublish takes the mount off its target and nothing else (d.vol,
\* the local mount and the other targets stay), so what a target of this
\* process showed before its unpublish is what a publish after it shows.
C14_UnpublishFrame ==
    /\ [][\A t \in MountTargets :
            Len(agent'.view[t]) < Len(agent.view[t]) =>
                /\ agent'.view[t] = Tail(agent.view[t])
                /\ \A u \in MountTargets \ {t} : agent'.view[u] = agent.view[u]
                /\ agent'.vol = agent.vol /\ agent'.top = agent.top
                /\ agent'.table = agent.table]_vars
    /\ [][\A t \in MountTargets :
            Len(agent'.view[t]) > Len(agent.view[t]) =>
                \A g \in agent.gone : agent'.view[t][1].gen = g]_vars

\* C15: with a tmpfs cache, what a restarted agent mounts on a target is a
\* tmpfs made after the restart, never one an earlier process made, and
\* the targets mounted before the restart go on showing what they showed.
C15_FreshTmpfsAfterRestart ==
    /\ [](labelsOf[AgentNode].kind = "tmpfs" =>
            \A m \in Published :
                /\ m.by < agent.epoch => m.gen <= agent.oldMade
                /\ (m.by = agent.epoch /\ agent.epoch > 0) => m.gen > agent.oldMade)
    /\ [][\A t \in MountTargets :
            \/ agent'.view[t] = agent.view[t]
            \/ agent.view[t] # <<>> /\ agent'.view[t] = Tail(agent.view[t])
            \/ agent'.view[t] # <<>> /\ Tail(agent'.view[t]) = agent.view[t]]_vars

\* One target mounted before the restart, another after it.
C15_Witness ==
    /\ labelsOf[AgentNode].kind = "tmpfs" /\ agent.epoch = 1
    /\ \E m1, m2 \in Published :
          /\ m1.by = 0 /\ m2.by = 1 /\ m1.target # m2.target
          /\ m1.gen # m2.gen

\* ------------------------------------------------ codec properties
Wrote == codec.op = "write" /\ codec.stage = "done"

\* The row of the table of sizes that made a size of the map written.
RowOf(size) == CHOOSE row \in SizeRows : row.size = size

\* Two maps with the same nodes and for each the same kind, the same disk
\* and sizes that compare as equal (Quantity.Cmp gives 0).
SameMap(got, want) ==
    /\ DOMAIN got = DOMAIN want
    /\ \A n \in DOMAIN want :
          /\ got[n].VolumeType = want[n].VolumeType
          /\ got[n].Disk = want[n].Disk
          /\ Equal(got[n].Size, want[n].Size)

\* Two maps that are the same, each size in number and in Format (the text
\* a quantity keeps for String() is left out of the comparison).
ExactMap(got, want) ==
    /\ SameMap(got, want)
    /\ \A n \in DOMAIN want : got[n].Size.Format = want[n].Size.Format

\* C16 as stated: for every well-formed map, the empty one among them,
\* parsing what writeVolumeTypeMapping wrote gives no error and exactly the
\* map written.
C16_ExactRoundTrip ==
    Wrote => (codec.out.err = "" /\ ~codec.out.nil /\ ExactMap(codec.out.map, codec.typeMap))

\* C16, amended: parsing what writeVolumeTypeMapping wrote gives no error
\* and a map of the same nodes, each with the kind and the disk written and
\* a size equal in number to the one written; a zero size comes back as
\* Quantity{}, and any other in the Format its written text shows (binary
\* with a binary suffix, exponent with e or E and a number, decimal
\* otherwise).
C16_RoundTrip ==
    Wrote =>
        /\ codec.out.err = "" /\ ~codec.out.nil
        /\ SameMap(codec.out.map, codec.typeMap)
        /\ \A n \in DOMAIN codec.typeMap :
              IF IsZero(codec.typeMap[n].Size) THEN codec.out.map[n].Size = Zero
              ELSE codec.out.map[n].Size.Format = RowOf(codec.typeMap[n].Size).back

\* Three nodes written and read back: one with a zero size that is not
\* Quantity{} and no disk, one with a disk and a binary size that is
\* printed and read back as a decimal one, one with a size that keeps the
\* text it was parsed from.
C16_Witness ==
    /\ Wrote /\ DOMAIN codec.typeMap = MapNodes
    /\ \E n \in MapNodes :
          /\ IsZero(codec.typeMap[n].Size) /\ codec.typeMap[n].Size # Zero
          /\ codec.typeMap[n].Disk = <<>>
    /\ \E n \in MapNodes :
          /\ codec.typeMap[n].Disk # <<>>
          /\ codec.typeMap[n].Size.Format = BinarySI
          /\ codec.out.map[n].Size.Format = DecimalSI
    /\ \E n \in MapNodes :
          /\ codec.typeMap[n].Size.s = <<"1", "E", "3">>
          /\ codec.out.map[n].Size = codec.typeMap[n].Size
    /\ SameMap(codec.out.map, codec.typeMap)

\* The line the format asks of a node:
\* <node>,type=<kind>[,size=<quantity>][,disk=<disk-id>], the quantity as
\* the table of sizes has it.
ExpectedLine(node, info) ==
    Join(<<node, KeyType \o <<"=">> \o info.VolumeType>>
         \o (IF IsZero(info.Size) THEN <<>>
             ELSE <<KeySize \o <<"=">> \o RowOf(info.Size).written>>)
         \o (IF info.Disk = <<>> THEN <<>> ELSE <<KeyDisk \o <<"=">> \o info.Disk>>),
         ",")

WrittenText == codec.written[volumeTypeInfoKey]

WrittenLines == IF WrittenText = <<>> THEN <<>> ELSE Split(WrittenText, "\n")

\* C17: under the key volume-types there is one line per node, of the form
\* <node>,type=<kind>[,size=<quantity>][,disk=<disk-id>], the lines in
\* ascending order and joined by single newlines, no newline at the end, no
\* whitespace, and the same text whatever order the map is ranged over in.
C17_WriteFormat ==
    (codec.op = "write" /\ codec.stage # "in") =>
        /\ volumeTypeInfoKey \in DOMAIN codec.written
        /\ Len(WrittenLines) = Cardinality(DOMAIN codec.typeMap)
        /\ {WrittenLines[i] : i \in 1..Len(WrittenLines)} =
              {ExpectedLine(n, codec.typeMap[n]) : n \in DOMAIN codec.typeMap}
        /\ \A i \in 1..(Len(WrittenLines) - 1) : Less(WrittenLines[i], WrittenLines[i + 1])
        /\ \A i \in 1..Len(WrittenText) : WrittenText[i] # " "
        /\ WrittenText # <<>> => WrittenText[Len(WrittenText)] # "\n"
        /\ \A o \in Orders(DOMAIN codec.typeMap) :
              writeVolumeTypeMapping(codec.data, codec.typeMap, o) = codec.written

\* Three nodes ranged over in descending order: one with a size and a disk,
\* one with a size that prints the text it was parsed from, one with a
\* size that prints in canonical form.
C17_Witness ==
    /\ codec.op = "write" /\ codec.stage = "written"
    /\ codec.order = <<<<"b">>, <<"a", "b">>, <<"a">>>>
    /\ Len(WrittenLines) = Len(codec.order)
    /\ \E n \in MapNodes : ~IsZero(codec.typeMap[n].Size) /\ codec.typeMap[n].Disk # <<>>
    /\ \E n \in MapNodes : codec.typeMap[n].Size.s = <<"1", "E", "3">>
    /\ \E n \in MapNodes :
          ~IsZero(codec.typeMap[n].Size) /\ codec.typeMap[n].Size.s = <<>>

Parsed == codec.op = "parse" /\ codec.stage = "done"

HasMap == volumeTypeInfoKey \in DOMAIN codec.data

\* The lines of the text parsed that are not blank, trimmed.
GivenLines ==
    SelectSeq([i \in 1..Len(Split(codec.data[volumeTypeInfoKey], "\n")) |->
                  TrimSpace(Split(codec.data[volumeTypeInfoKey], "\n")[i])],
              LAMBDA l : l # <<>>)

Fields(line) == Split(line, ",")

ItemKey(item) == TrimSpace(SplitN(item, "=")[1])

\* The faults of a line the parser is to refuse.
FewFields(line) == Len(Fields(line)) < 2

BadKey(line) ==
    \E k \in 2..Len(Fields(line)) : ItemKey(Fields(line)[k]) \notin {KeyType, KeySize, KeyDisk}

BadSize(line) ==
    \E k \in 2..Len(Fields(line)) :
        /\ ItemKey(Fields(line)[k]) = KeySize
        /\ Len(SplitN(Fields(line)[k], "=")) = 2
        /\ ParseQuantity(TrimSpace(SplitN(Fields(line)[k], "=")[2])).err

Duplicate(lines, j) ==
    \E i \in 1..(j - 1) : TrimSpace(Fields(lines[i])[1]) = TrimSpace(Fields(lines[j])[1])

Faulty(lines) ==
    \E j \in 1..Len(lines) :
        FewFields(lines[j]) \/ BadKey(lines[j]) \/ BadSize(lines[j]) \/ Duplicate(lines, j)

\* A key that is not followed by "=".
NoValue(lines) ==
    \E j \in 1..Len(lines) : \E k \in 2..Len(Fields(lines[j])) :
        Len(SplitN(Fields(lines[j])[k], "=")) < 2

\* C18: getVolumeTypeMapping returns an error and no map whenever a line
\* that is not blank has fewer than two fields, names a node of an earlier
\* line, has a key other than type, size and disk (the empty key after a
\* trailing comma too) or a size that is no quantity; blank lines and
\* spaces around "," and "=" alone bring no error.
C18_ParseErrors ==
    (Parsed /\ HasMap) =>
        /\ Faulty(GivenLines) =>
              (codec.out.err \notin {"", "panic"} /\ codec.out.nil)
        /\ (~Faulty(GivenLines) /\ ~NoValue(GivenLines)) =>
              (codec.out.err = "" /\ ~codec.out.nil)

AllBlank(text) == \A i \in 1..Len(text) : text[i] \in WhiteSpace

\* C19: data without the key volume-types fails to parse with "not found";
\* data whose value under the key is empty or all blank parses to the
\* empty map.
C19_MissingKey ==
    Parsed =>
        /\ ~HasMap => (codec.out.err = "not found" /\ codec.out.nil)
        /\ (HasMap /\ AllBlank(codec.data[volumeTypeInfoKey])) =>
              (codec.out.err = "" /\ ~codec.out.nil /\ codec.out.map = EmptyMapping)

\* Blank lines only, more than one of them.
C19_Witness ==
    /\ Parsed /\ HasMap
    /\ AllBlank(codec.data[volumeTypeInfoKey])
    /\ Len(Split(codec.data[volumeTypeInfoKey], "\n")) = MaxLines
    /\ \E i \in 1..Len(codec.data[volumeTypeInfoKey]) : codec.data[volumeTypeInfoKey][i] = " "
    /\ codec.out.err = "" /\ codec.out.map = EmptyMapping

\* What the size label of the labels given is to mean.
GivenSize == CHOOSE l \in SizeLabels : l.text = codec.labels.size.text

NoRecord == Info("", Zero, NoDisk)

\* C20: getVolumeTypeFromNode answers "not found" exactly without the
\* cache-kind label, size label or not; else the kind is the label's value,
\* the size what the size label writes (zero without one) and the disk
\* empty; a size label that is no quantity gives an error and no record.
C20_FromNode ==
    (codec.op = "node" /\ codec.stage = "done") =>
        LET l == codec.labels
            r == codec.vti
        IN /\ r.err = "label not found on node" <=> l.kind = NoLabel
           /\ (l.kind # NoLabel /\ ~l.size.found) =>
                 (r.err = "" /\ r.info = Info(l.kind, Zero, NoDisk))
           /\ (l.kind # NoLabel /\ l.size.found /\ GivenSize.ok) =>
                 (r.err = "" /\ r.info = Info(l.kind, GivenSize.quantity, NoDisk))
           /\ (l.kind # NoLabel /\ l.size.found /\ ~GivenSize.ok) =>
                 (r.err \notin {"", "label not found on node"} /\ r.info = NoRecord)
           /\ r.err # "" => r.info = NoRecord

\* A size label that is no quantity on a node without the cache-kind label.
C20_Witness ==
    /\ codec.op = "node" /\ codec.stage = "done"
    /\ codec.labels.kind = NoLabel
    /\ codec.labels.size.found /\ ~GivenSize.ok
    /\ codec.vti.err = "label not found on node"

\* ------------------------------------------------- RAID properties
\* Init call i has returned.
InitReturned(i) == raid.calls[i].op = "Init" /\ raid.calls[i].pc = "idle"

\* The commands of call i that change an array, but for the stops.
Changes(i) == SelectSeq(raid.calls[i].log, LAMBDA c : c[1] \in ChangeOps \ {"--stop"})

\* C21: an Init call, of a stripe or of a mirror, that meets a target which
\* already runs as an array returns success and issues no stop, wipe,
\* assemble, add or create command: the array is left as it was, so a second
\* Init after a first leaves what the first left.
C21_LiveInitNoop ==
    \A i \in Calls :
        InitReturned(i) /\ raid.calls[i].before.live =>
            /\ ~raid.calls[i].err
            /\ \A k \in 1..Len(raid.calls[i].log) : raid.calls[i].log[k][1] \notin ChangeOps
            /\ raid.calls[i].after = raid.calls[i].before

\* A striped Init that met a target not running, found every member a
\* device, read the status text and so came to probe the members.
StripedProbed(i) ==
    /\ InitReturned(i) /\ raid.mode = "striped"
    /\ ~raid.calls[i].before.live
    /\ Members \subseteq raid.calls[i].before.present
    /\ \E k \in 1..Len(raid.calls[i].log) : raid.calls[i].log[k][1] = "--examine"

\* Some members carried metadata when the call came, others did not.
Partial(i) == Members \cap raid.calls[i].before.meta \notin {{}, Members}

CreatedStripe(i) ==
    /\ Len(Changes(i)) = 1
    /\ Changes(i)[1] = <<"--create", RaidTarget, "--level", "0", "--run",
                         "--raid-devices", "2">> \o RaidMembers

\* C22 as the claim has it, of an Init with no other under way: a striped
\* Init on a target that does not run, with some members carrying metadata
\* and others not, assembles the array, wipes every device that is no
\* member yet and adds it; with no member carrying metadata it creates a
\* stripe over all members.
C22_PartialAssembly ==
    \A i \in Calls :
        (StripedProbed(i) /\ raid.calls[i].alone) =>
            LET log == raid.calls[i].log
                meta == raid.calls[i].before.meta
            IN /\ Partial(i) =>
                     /\ \E k \in 1..Len(log) : log[k][1] = "--assemble"
                     /\ \A d \in Members \ meta :
                           /\ \E k \in 1..Len(log) : log[k] = <<"--zero-superblock", d>>
                           /\ \E k \in 1..Len(log) :
                                 /\ log[k][1] = "--add"
                                 /\ \E j \in 3..Len(log[k]) : log[k][j] = d
               /\ Members \cap meta = {} => CreatedStripe(i)

\* C22, amended: a striped Init on a target that does not run, whose members
\* are devices and whose status text was read, issues besides the stops of
\* inactive arrays exactly one command that changes an array: when its probe
\* finds a member that carries metadata, one --assemble of the target over
\* all the members with --run (no device is wiped, none is added); when it
\* finds none, one --create of level 0 over all the members.  With no other
\* Init under way meanwhile, the probe finds such a member exactly when at
\* least one member carried metadata as Init was called.
C22_StripedInit ==
    \A i \in Calls :
        StripedProbed(i) =>
            /\ raid.calls[i].existing # <<>> =>
                  /\ Len(Changes(i)) = 1
                  /\ Changes(i)[1] = <<"--assemble", RaidTarget>> \o RaidMembers \o <<"--run">>
            /\ raid.calls[i].existing = <<>> => CreatedStripe(i)
            /\ raid.calls[i].alone =>
                  (raid.calls[i].existing # <<>> <=>
                      Members \cap raid.calls[i].before.meta # {})

\* A striped Init, no other under way, that met some members with metadata
\* and others without, and assembled the array.
C22_Witness ==
    \E i \in Calls :
        /\ StripedProbed(i) /\ Partial(i) /\ raid.calls[i].alone
        /\ Changes(i) # <<>> /\ Changes(i)[1][1] = "--assemble"
        /\ ~raid.calls[i].err /\ raid.calls[i].after.live

\* Two striped Inits under way at once, both having met members without
\* metadata: the first created the array, the second found the metadata
\* the first had written and assembled.
RacedInit ==
    /\ StripedProbed(1) /\ StripedProbed(2)
    /\ raid.calls[1].before.meta = {} /\ raid.calls[2].before.meta = {}
    /\ ~raid.calls[1].alone /\ ~raid.calls[2].alone
    /\ Changes(1)[1][1] = "--create" /\ Changes(2)[1][1] = "--assemble"

\* A line of the form '<name> : inactive <member>...': the names it may be
\* read to carry (one at most).
InactiveNames(line) ==
    {name \in {SubSeq(line, 1, k) : k \in 1..Len(line)} :
        /\ ~Contains(name, " ")
        /\ Len(line) > Len(name) + 12
        /\ SubSeq(line, Len(name) + 1, Len(name) + 12)
              = <<" ", ":", " ", "i", "n", "a", "c", "t", "i", "v", "e", " ">>
        /\ line[Len(name) + 13] \in AlphaNum}

ParsedLines == Split(raid.parsed.text, "\n")

\* C23: getInactiveDevices returns one entry /dev/<name> for each line of the
\* form '<name> : inactive <member>...', in the order of the lines, and
\* nothing for a line of an active array or any other line; a text with
\* active arrays only gives the empty list.
C23_InactiveDevices ==
    raid.parsed.called =>
        LET hits == SelectSeq(ParsedLines, LAMBDA line : InactiveNames(line) # {})
        IN /\ Len(raid.parsed.devices) = Len(hits)
           /\ \A i \in 1..Len(hits) :
                 \E name \in InactiveNames(hits[i]) :
                    raid.parsed.devices[i] = DevDir \o name

C23_Witness ==
    /\ raid.parsed.called
    /\ Len(ParsedLines) = 2
    /\ ParsedLines[1][5] = ":" /\ ParsedLines[1][7] = "a"
    /\ raid.parsed.devices = <<DevDir \o <<"m", "d", "2">>>>

\* ------------------------------------------- properties of the two loops
\* The claims the step at hand issues a delete on, or strips the retention
\* finalizer from: the sweep's orphan at hand, the claim loop's key.
ReleaseWrites ==
    {nw.orphans[1].name : x \in {y \in {1} : nw.pc \in {"delete", "strip"} /\ nw' # nw}}
    \cup {cw.key : x \in {y \in {1} : cw.pc \in {"delete", "strip"} /\ cw' # cw}}

\* C24: the reconciler issues no delete on a claim, and strips the retention
\* finalizer from none, whose same-named node is live at the moment of the
\* write, also when a node of that name joins between the sweep's listing
\* and its delete, or between the claim loop's node fetch and its delete.
C24_NoReleaseUnderLiveNode ==
    [][\A n \in ReleaseWrites : ~NodeLive(n)]_vars

\* Claim n is bound to one volume and its node is live, before and after
\* the step, and the stored map parses before and after it.
StaysBound(n) ==
    /\ pvcs[n].exists /\ pvcs[n].bound /\ pvcs'[n].exists /\ pvcs'[n].bound
    /\ pvcs'[n].volumeName = pvcs[n].volumeName
    /\ NodeLive(n) /\ nodes'[n].exists /\ ~nodes'[n].deleting
    /\ ~cm.bad /\ ~cm'.bad

CarriesDisk(c, n) ==
    c.exists /\ n \in DOMAIN c.data /\ c.data[n].Disk = pvcs[n].volumeName

\* The node loop is about to persist a record of n that it built from a
\* read of the claim before the claim was bound.
StaleWrite(n) == nw.pc = "writeMapping" /\ nw.key = n /\ nw.disk = NoDisk

\* C25: while claim n stays bound to a volume, node n stays live and the
\* stored map stays well-formed, a map entry of n that carries the volume
\* as its disk keeps it through every write of either loop; a node-loop
\* reconcile that read the claim before it was bound does not overwrite the
\* disk written meanwhile by the claim loop: its write is refused and its
\* key queued again.
C25_DiskKept ==
    [][\A n \in Nodes :
          StaysBound(n) /\ CarriesDisk(cm, n) =>
              /\ CarriesDisk(cm', n)
              /\ StaleWrite(n) /\ nw' # nw => cm' = cm /\ n \in nodeQ']_vars

C25_Witness ==
    \E n \in Nodes :
        /\ StaleWrite(n) /\ NodeLive(n)
        /\ pvcs[n].exists /\ pvcs[n].bound /\ ~cm.bad /\ CarriesDisk(cm, n)

\* C26: whenever a claim made by the reconciler exists the stored map holds
\* an entry of the claim's name: the map has the entry from the moment the
\* claim is created, so the claim loop finds the name it is handed.
C26_EntryBeforeClaim ==
    [][\A n \in Nodes :
          ~pvcs[n].exists /\ pvcs'[n].exists =>
              cm'.exists /\ ~cm'.bad /\ n \in DOMAIN cm'.data]_vars

\* C27: once d.vol is set it is neither set back to nil nor replaced by
\* another volume while the process runs, however the publishes interleave.
C27_VolSetOnce ==
    [][agent.vol # "nil" /\ agent'.epoch = agent.epoch => agent'.vol = agent.vol]_vars

\* A call of the node loop's step at hand fails: the claim's create or
\* update, the map's persist, the sweep's delete or finalizer update.
NodeCallFails ==
    \/ nw.pc = "createPVC" /\ pvcs[nw.key].exists
    \/ /\ nw.pc = "updatePVC"
       /\ \/ nw.claim = NoNode
          \/ UpdateResult(nw.key, nw.pvcRV, Append(nw.finalizers, finalizerLabel)) # "ok"
    \/ /\ nw.pc = "writeMapping"
       /\ StoredCm(nw.mustCreateMapping, nw.cmRV,
                   MapPut(nw.mapping, nw.key, Info(nw.kind, nw.size, nw.disk))).err # ""
    \/ nw.pc = "delete" /\ DeleteResult(nw.orphans[1].name) # "ok"
    \/ /\ nw.pc = "strip"
       /\ UpdateResult(nw.orphans[1].name, nw.orphans[1].rv,
                       Without(nw.orphans[1].finalizers, finalizerLabel)) # "ok"

\* A call of the claim loop's step at hand fails: the claim's fetch, the
\* map's persist, the volume's fetch, the claim's delete or finalizer update.
ClaimCallFails ==
    \/ cw.pc = "getPVC" /\ ~ClaimCached(cw.key)
    \/ /\ cw.pc = "updateMapping"
       /\ StoredCm(FALSE, cw.cmRV,
                   MapPut(cw.mapping, cw.key,
                          [cw.mapping[cw.key] EXCEPT !.Disk = cw.volumeName])).err # ""
    \/ cw.pc = "getPV" /\ ~pvs[cw.volumeName].exists
    \/ cw.pc = "getZone" /\ ~nodes[cw.key].exists
    \/ cw.pc = "delete" /\ DeleteResult(cw.key) # "ok"
    \/ /\ cw.pc = "strip"
       /\ UpdateResult(cw.key, cw.pvcRV, Without(cw.finalizers, finalizerLabel)) # "ok"

\* C28: a reconcile of either loop in which an orchestrator call fails ends
\* in an error or a requeue request: its key is queued again, not reported
\* as reconciled.
C28_FailuresRequeue ==
    [][/\ NodeCallFails /\ nw' # nw => nw.key \in nodeQ'
       /\ ClaimCallFails /\ cw' # cw => cw.key \in claimQ' \/ cw'.mustRequeue]_vars

\* Both work queues are empty and both workers idle.
Quiescent == nodeQ = {} /\ claimQ = {} /\ nw.pc = "idle" /\ cw.pc = "idle"

\* C29: once the nodes, their labels and the claims' bindings no longer
\* change and the calls succeed, both loops come to rest: every key has been
\* reconciled without error or requeue and nothing is written any more, the
\* keys of claims deleted after their node went away included.
C29_Quiescence == <>[]Quiescent

\* n is a live node carrying a cache-kind label.
CacheLabeled(n) == NodeLive(n) /\ nodes[n].kind # NoLabel

\* The node loop stores a map that it built from a read of the malformed
\* value now stored.
HealingWrite ==
    /\ nw.pc = "writeMapping" /\ cm.exists /\ cm.bad /\ nw.cmRV = cm.rv
    /\ cm' # cm

\* Every live cache-labelled node has an entry in a stored map that parses.
Healed ==
    \A n \in Nodes :
        CacheLabeled(n) => cm.exists /\ ~cm.bad /\ n \in DOMAIN cm.data

\* C30: when the stored map value has become malformed, the node loop's
\* reconcile of a cache-labelled node that reads it stores a well-formed map
\* holding that node's entry in its place, and from a malformed value the
\* system always comes back to a state in which every live cache-labelled
\* node has an entry in a well-formed stored map.
C30_SelfHealing ==
    /\ [][HealingWrite =>
             ~cm'.bad /\ nw.key \in DOMAIN cm'.data]_vars
    /\ (cm.exists /\ cm.bad) ~> Healed

\* The claim named n loses the retention finalizer in this step.
LosesRetention(n) ==
    /\ pvcs[n].exists /\ HasRetention(n)
    /\ ~pvcs'[n].exists \/ ~Contains(pvcs'[n].finalizers, finalizerLabel)

\* The r.Delete of the deletePVC at hand fails, in the sweep or in the claim
\* loop.
SweepDeleteFails == nw.pc = "delete" /\ DeleteResult(nw.orphans[1].name) # "ok"

ClaimDeleteFails == cw.pc = "delete" /\ DeleteResult(cw.key) # "ok"

\* C31: deletePVC deletes before it touches the finalizers: a claim loses
\* the retention finalizer only when a delete of it has gone through (it is
\* deletion-marked), and a deletePVC whose delete fails changes no claim,
\* goes on to no finalizer update and returns the error (the sweep ends, the
\* claim loop's key is queued again).
C31_DeleteBeforeStrip ==
    [][/\ \A n \in Nodes : LosesRetention(n) => pvcs[n].deleting
       /\ SweepDeleteFails /\ nw' # nw => pvcs' = pvcs /\ nw'.pc = "idle"
       /\ ClaimDeleteFails /\ cw' # cw =>
             pvcs' = pvcs /\ cw'.pc = "idle" /\ cw.key \in claimQ']_vars

\* A deletePVC has deleted a claim that carries the retention finalizer and
\* stands before the update that takes it out, which will go through.
C31_Witness ==
    \/ /\ cw.pc = "strip" /\ pvcs[cw.key].deleting /\ HasRetention(cw.key)
       /\ UpdateResult(cw.key, cw.pvcRV, Without(cw.finalizers, finalizerLabel)) = "ok"
    \/ /\ nw.pc = "strip" /\ pvcs[nw.orphans[1].name].deleting
       /\ HasRetention(nw.orphans[1].name)
       /\ UpdateResult(nw.orphans[1].name, nw.orphans[1].rv,
                       Without(nw.orphans[1].finalizers, finalizerLabel)) = "ok"

\* C32: a claim-loop reconcile whose node fetch finds no node of the claim's
\* name, or a deletion-marked one, goes to the deletion helper and returns
\* from it: it deletes the claim, and in the rest of that reconcile it
\* updates no map, asks for no attachment state and requests no attach.
C32_NoNodeOnlyDelete ==
    [][cw' # cw =>
         /\ cw.pc = "getNode" /\ ~NodeLive(cw.key) => cw'.pc = "delete"
         /\ cw.pc = "delete" /\ pvcs[cw.key].exists =>
               ~pvcs'[cw.key].exists \/ pvcs'[cw.key].deleting
         /\ cw.pc \in {"delete", "strip"} =>
               /\ cm' = cm /\ attachReqs' = attachReqs
               /\ cw'.pc \in {"strip", "idle"}]_vars

\* The claim loop met a bound claim without a live node, has deleted it and
\* is in the deletion helper.
C32_Witness ==
    /\ cw.pc = "strip" /\ cw.bound /\ ~NodeLive(cw.key)
    /\ pvcs[cw.key].exists /\ pvcs[cw.key].deleting

\* The node loop is about to look at the labels of a pd node that it may
\* not serve: no PD storage class is configured, or the node has no size.
PdRefused ==
    /\ nw.pc = "getConfigMap" /\ nw.kind = pdVolumeType
    /\ pdStorageClass = "" \/ IsZero(SizeOf(nw.label))

\* C33: the node-loop reconcile of a pd node returns an error (its key is
\* queued again) when no PD storage class is configured or the node's size
\* is zero or absent, and it creates or updates no claim and writes nothing
\* into the configuration object.
C33_PdRefused ==
    [][PdRefused /\ nw' # nw =>
         /\ nw'.pc = "idle" /\ nw.key \in nodeQ'
         /\ pvcs' = pvcs /\ pvcRV' = pvcRV /\ cm' = cm]_vars

\* The entries of a stored configuration object (none when it is not there).
Entries(c) == IF c.exists THEN c.data ELSE EmptyMapping

\* The node loop's write of the step at hand goes through and changes the
\* stored, well-formed map.
NodeWrites ==
    /\ nw.pc = "writeMapping" /\ nw' # nw /\ cm' # cm
    /\ cm.exists => ~cm.bad

\* C34: a node-loop write for node n that goes through on a well-formed
\* stored map changes the entry at key n only: every other node has an
\* entry after the write exactly when it had one before, with the same kind,
\* size and disk, whatever the claim loop wrote in between.
C34_OnlyOwnEntry ==
    [][NodeWrites =>
         /\ ~cm'.bad /\ nw.key \in DOMAIN cm'.data
         /\ DOMAIN cm'.data \ {nw.key} = DOMAIN Entries(cm) \ {nw.key}
         /\ \A m \in DOMAIN cm'.data \ {nw.key} : cm'.data[m] = cm.data[m]]_vars

\* The node loop is about to add a node's entry to a stored map that holds
\* another node's entry with the disk the claim loop wrote, and the write
\* will go through.
C34_Witness ==
    /\ nw.pc = "writeMapping" /\ ~nw.mustCreateMapping
    /\ cm.exists /\ ~cm.bad /\ nw.cmRV = cm.rv
    /\ nw.key \notin DOMAIN cm.data
    /\ \E m \in DOMAIN cm.data : cm.data[m].Disk # NoDisk

\* C35: a node-loop reconcile of a node that is not found or is
\* deletion-marked runs the orphan sweep and nothing else: from the node
\* fetch it goes to the sweep, and until it ends it neither creates nor
\* updates the configuration object, so that every map entry, the one of
\* the departed node too, stays as it is.
C35_SweepOnly ==
    [][nw' # nw =>
         /\ \A k \in Nodes :
               nw.pc = "idle" /\ nw'.key = k /\ ~NodeLive(k) => nw'.pc = "sweep"
         /\ nw.pc \in {"sweep", "listNodes", "delete", "strip"} =>
               /\ cm' = cm
               /\ nw'.pc \in {"listNodes", "delete", "strip", "idle"}]_vars

\* The sweep is under way for a deletion-marked node while the stored map
\* holds the node's entry; it found two claims to delete and took the one
\* of the other node first.
C35_Witness ==
    /\ nw.pc \in {"delete", "strip"}
    /\ cm.exists /\ nw.key \in DOMAIN cm.data
    /\ nodes[nw.key].exists /\ nodes[nw.key].deleting
    /\ Len(nw.orphans) = 2 /\ nw.orphans[1].name # nw.key

\* How often the retention finalizer stands in a finalizer list.
RetentionCount(fins) == Cardinality({i \in 1..Len(fins) : fins[i] = finalizerLabel})

\* C36: whatever reconciles have run, no claim's finalizer list holds the
\* retention finalizer more than once, and the node loop issues neither a
\* create nor an update on a claim that exists and carries the finalizer.
C36_FinalizerOnce ==
    /\ [](\A n \in Nodes : RetentionCount(pvcs[n].finalizers) <= 1)
    /\ [][nw' # nw /\ nw.pc \in {"createPVC", "updatePVC"} /\ nw.claim = nw.key =>
             ~(pvcs[nw.key].exists /\ HasRetention(nw.key))]_vars

\* C37: deletePVC takes the retention finalizer out and nothing else: a claim
\* that loses it keeps every other finalizer, in the order they stood in
\* (and is gone when none is left), and a deletePVC on a copy without the
\* retention finalizer issues no update after its delete.
C37_OnlyRetentionRemoved ==
    [][/\ \A n \in Nodes :
             LosesRetention(n) =>
                 IF pvcs'[n].exists
                 THEN pvcs'[n].finalizers = Without(pvcs[n].finalizers, finalizerLabel)
                 ELSE \A i \in 1..Len(pvcs[n].finalizers) :
                         pvcs[n].finalizers[i] = finalizerLabel
       /\ cw.pc = "delete" /\ cw' # cw /\ ~Contains(cw.finalizers, finalizerLabel)
             => cw'.pc = "idle"
       /\ nw.pc = "delete" /\ nw' # nw
             /\ ~Contains(nw.orphans[1].finalizers, finalizerLabel)
             => nw'.pc \in {"delete", "idle"}]_vars

\* A deletePVC stands before the update on a deleted claim that carries the
\* retention finalizer after another one, and the update will go through.
C37_Witness ==
    /\ cw.pc = "strip" /\ pvcs[cw.key].deleting
    /\ pvcs[cw.key].finalizers = <<pvcProtection, finalizerLabel>>
    /\ UpdateResult(cw.key, cw.pvcRV, Without(cw.finalizers, finalizerLabel)) = "ok"

\* ------------------------------------------------- C38: an existing mount
\* The fields of a line of the mount table.
MountFields(line) == Split(line, " ")

\* The lines of the table that are mounts at path.
MountsAt(mounts, path) ==
    SelectSeq(Split(mounts, "\n"),
              LAMBDA line : Len(MountFields(line)) >= 2 /\ MountFields(line)[2] = path)

\* The mounts at path are all of the device / none is of the device.
AllOf(hits, device) == \A i \in 1..Len(hits) : MountFields(hits[i])[1] = device

NoneOf(hits, device) == \A i \in 1..Len(hits) : MountFields(hits[i])[1] # device

\* C38: a call of NewFromDevice for a mount path that the mount table has a
\* mount at neither makes the directory nor calls the mount tool and leaves
\* the table as it was; it returns the mount when the mount's source is the
\* resolved device, and a terminal error when it is not.
C38_ExistingMount ==
    (codec.op = "device" /\ codec.stage = "done"
        /\ MountsAt(codec.mounts, codec.mountPath) # <<>>) =>
    LET hits == MountsAt(codec.mounts, codec.mountPath)
    IN /\ ~codec.mkdir /\ ~codec.ran /\ codec.after = codec.mounts
       /\ AllOf(hits, codec.actualDevice) => codec.vol.kind = ""
       /\ NoneOf(hits, codec.actualDevice) => codec.vol.kind = "terminal"

\* ------------------------------------------------- C39: the tmpfs size cap
\* The whole mebibytes of a size, the fraction cut off, in digits.
WholeMebibytes(size) ==
    LET n == TrimZeros(DivMod(DivMod(Whole(size), 1024, 0).quo, 1024, 0).quo)
    IN IF n = <<>> THEN <<"0">>
       ELSE (IF size.neg THEN <<"-">> ELSE <<>>) \o n

\* C39: NewTmpfsVolume of a non-zero size, once the directory is there,
\* mounts with size=<N>M, N the whole mebibytes of the size and at least 1;
\* a zero size is refused before a directory is made or a mount attempted.
C39_SizeCapped ==
    (codec.op = "tmpfs" /\ codec.stage = "done") =>
    IF IsZero(codec.size)
    THEN codec.vol.kind = "terminal" /\ ~codec.mkdir /\ ~codec.ran /\ codec.opts = <<>>
    ELSE codec.dirOk =>
         /\ codec.ran
         /\ codec.opts[1] = <<"s", "i", "z", "e", "=">> \o WholeMebibytes(codec.size)
                                \o <<"M">>
         /\ Head(WholeMebibytes(codec.size)) \in DigitSet \ {"0"}

\* ------------------------------------------------- C40: the parser is total
\* C40: getVolumeTypeMapping returns a map or an error for every text: a key
\* type, size or disk without '=' gives an error, not an access out of range.
C40_Total ==
    (codec.op \in {"parse", "write"} /\ codec.stage = "done") =>
    \/ codec.out.err = "" /\ ~codec.out.nil
    \/ codec.out.err \notin {"", "panic"} /\ codec.out.nil

====
